---- MODULE Spec2Model ----
(***************************************************************************)
(* gostratum/httpc: the execution pipeline of the HTTP client.             *)
(*                                                                         *)
(* A call runs Client.Do: clone the Request, build the wire request (the   *)
(* body factory is invoked once), select the retry policy and the breaker  *)
(* override, then send through the transport chain                         *)
(*   retry middleware -> breaker middleware -> base transport.             *)
(* The base transport is the environment: each attempt it answers with a   *)
(* status code or with a transport error.                                  *)
(***************************************************************************)
EXTENDS Integers, Sequences, FiniteSets, TLC

(***************************************************************************)
(* Values.                                                                 *)
(***************************************************************************)
NilPolicy == [nil |-> TRUE, maxAttempts |-> 0, statusCodes |-> {}, idempotentOnly |-> FALSE,
              baseBackoff |-> 0, maxBackoff |-> 0]

\* the timers of a call that is not running: -1 is "no timer", otherwise the
\* time left
NoDeadline == [ctx |-> -1, httpClient |-> -1]

\* no backoff computed yet
NoDelay == [baseBackoff |-> 0, maxBackoff |-> 0, attempt |-> 0, value |-> 0]

Resp(s) == [status |-> s, err |-> "nil", wrap |-> "", open |-> TRUE]
Err(e) == [status |-> 0, err |-> e, wrap |-> "", open |-> FALSE]
NoResult == [status |-> 0, err |-> "nil", wrap |-> "", open |-> FALSE]

NoCtype == [type |-> "", boundary |-> 0]
Ctype(t) == [type |-> t, boundary |-> 0]

Payload(n) == [i \in 1..n |-> i % 2]

NoBody == [kind |-> "none", data |-> <<>>, fields |-> {}]

\* no auth provider (a nil auth.AuthProvider)
NoAuth == [kind |-> "none", key |-> "", location |-> "", username |-> "", fails |-> FALSE,
           name |-> ""]

\* header and query names the model tells apart; a string the code takes
\* apart (a URL) is written as the tuple of its characters
HeaderNames == {"Accept", "Authorization", "Content-Type", "User-Agent", "X-API-Key"}
QueryNames == {"api_key", "page"}
NoHeaders == [k \in HeaderNames |-> <<>>]
NoQueries == [k \in QueryNames |-> <<>>]

NoRequest == [method |-> "", host |-> "", body |-> NoBody, forceRetry |-> FALSE,
              retryPolicy |-> NilPolicy, breakerToggle |-> "unset",
              authProvider |-> NoAuth, malformed |-> FALSE,
              url |-> <<>>, headers |-> NoHeaders, queries |-> NoQueries,
              contentType |-> "", accept |-> "", timeout |-> 0]

\* a Response as newResponse makes it: nothing loaded, no error; reads and
\* closes count what was done to the network body, returns lists what the
\* helpers gave back
NoResponse == [err |-> "nil", body |-> <<>>, loaded |-> FALSE, reads |-> 0, closes |-> 0,
               returns |-> <<>>]

\* no wire request (buildHTTPRequest failed, or the call has not started)
NoHTTPRequest == [target |-> <<>>, rawQuery |-> <<>>, header |-> NoHeaders]

\* the auth of a call before Do: no provider applied, no credential attached
NoAuthState == [applied |-> <<>>, credential |-> <<>>, mintedAt |-> -1]

\* what a body factory returns when there is none
NoContent == [content |-> <<>>, ctype |-> NoCtype, pos |-> 0]

ZeroCounts == [Requests |-> 0, ConsecutiveSuccesses |-> 0, ConsecutiveFailures |-> 0]

NoBreaker == [created |-> FALSE, state |-> "closed", generation |-> 0,
              counts |-> ZeroCounts, expiry |-> 0, maxRequests |-> 0]

NoGet == [host |-> "", at |-> "idle", fresh |-> 0, cb |-> 0]

NoNetBody == [closed |-> FALSE, encoding |-> "", decoder |-> "none", corrupt |-> FALSE,
              originalClosed |-> FALSE]

(***************************************************************************)
(* Bounds of the model.                                                    *)
(***************************************************************************)
MaxAttemptsBound == 3   \* largest retry_max_attempts a client is configured with
MaxLen == 2             \* longest request payload, in bytes
NumBoundaries == 2      \* multipart boundaries the random source can draw
MaxNow == 63            \* the clock stops here (seconds)
MaxCalls == 8           \* calls started over the client's lifetime
MaxAccesses == 3        \* helper calls (Bytes, String, ...) on one Response
MaxBackoffAttempt == 5  \* largest attempt index a backoff is computed for

(***************************************************************************)
(* Program constants.                                                      *)
(***************************************************************************)
DefaultMaxAttempts == 3       \* config.go applyDefaults / retry.NewPolicy
TripThreshold == 5            \* breaker: consecutive failures that trip
DefaultBreakerTimeout == 30   \* breaker: cooldown, seconds
MaxRequests == 1              \* breaker: trials allowed while half-open
DefaultTimeout == 10          \* config.go applyDefaults: Timeout, seconds
DefaultBaseBackoff == 20      \* retry.NewPolicy: 200ms, in units of 10ms
DefaultMaxBackoff == 200      \* retry.NewPolicy: 2s, in units of 10ms

Slots == {1, 2}
Hosts == {"h1", "h2"}
IdempotentMethods == {"GET", "HEAD", "OPTIONS", "PUT", "DELETE"}
Methods == IdempotentMethods \cup {"POST", "PATCH"}
DefaultRetryOnStatuses == {502, 503, 504}

\* the breaker instances gobreaker.NewCircuitBreaker can hand out: at most
\* one per caller and host
Instances == 1..(Cardinality(Slots) * Cardinality(Hosts))
NoJitter == [attempt |-> [c \in Slots |-> 0], at |-> [c \in Slots |-> "out"], mu |-> 0]
NoManager == [breakers |-> [h \in Hosts |-> 0], made |-> 0,
              failures |-> [i \in Instances |-> 0], got |-> [c \in Slots |-> NoGet]]

VARIABLES
    client,     \* the constructed client: what New kept of the Config
    pc,         \* per slot: "idle", "attempt", "flight", "wait", "done"
    req,        \* per slot: the Request of the call in the slot
    ctxErr,     \* per slot: the call's context: "none", "canceled", "deadline"
    attempt,    \* per slot: the retry loop's attempt counter
    policy,     \* per slot: the policy the retry middleware uses (or NilPolicy)
    source,     \* per slot: read position of the caller's body stream
    readers,    \* per slot: the body readers created so far (data, pos)
    cur,        \* per slot: index in readers of the current attempt's body
    contentType, \* per slot: the Content-Type header of the wire request
    wire,       \* per slot: per transport attempt, what was put on the wire
    hist,       \* per slot: per transport attempt, the transport's answer
    waited,     \* per slot: backoff waits that ran to their timer
    result,     \* per slot: what Do returned
    breakers,   \* per host: the host's circuit breaker (sync.Map entry)
    now,        \* the clock, in seconds
    started,    \* calls started so far
    authState,  \* per slot: the providers Do applied and the credential on the request
    trace,      \* per slot: the layers of the transport chain entered, in order
    httpReq,    \* per slot: the wire request Do built (target, query, headers)
    response,   \* per slot: the Response Do returned: its cache and its network body
    caller,     \* per slot: the caller's Request object, as Do leaves it
    delay,      \* the last backoff a policy computed, with its inputs
    deadline,   \* per slot: time left on the call's context timer and on the
                \* http.Client's timer
    respBodies, \* per slot: per transport attempt, the state of the answer's
                \* response body: "none" (no response), "open", "closed"
    manager,    \* the breaker manager's sync.Map, the instances created, and per
                \* caller its place in manager.get
    netBody,    \* per slot: the body of the response the chain returned: the
                \* decoder the gzip middleware put around it, what was closed
    jitter,     \* the shared policy's mutex (its holder, 0: free) and per caller its
                \* place in policy.backoff and the attempt it computes for
    passes      \* per host, observed at the breaker: the run of calls that failed
                \* in a row, the time of the last failure, and the run of calls
                \* that were answered 4xx/5xx in a row, and the run of calls that
                \* ended with the error of their own context

vars == <<client, pc, req, ctxErr, attempt, policy, source, readers, cur, contentType,
          wire, hist, waited, result, breakers, now, started, authState, trace, httpReq,
          response, caller, delay, deadline, respBodies, manager, netBody, jitter,
          passes>>

\* the variables of the calls, which the steps inside manager.get leave
\* alone
callVars == <<client, pc, req, ctxErr, attempt, policy, source, readers, cur, contentType,
              wire, hist, waited, result, breakers, now, started, authState, trace, httpReq,
              response, caller, delay, deadline, respBodies, netBody, passes>>

RECURSIVE SortedSeq(_)
SortedSeq(S) ==
    IF S = {} THEN <<>>
    ELSE LET m == CHOOSE x \in S : \A y \in S : x <= y
         IN <<m>> \o SortedSeq(S \ {m})

Perms(S) == {f \in [1..Cardinality(S) -> S] : \A i, j \in 1..Cardinality(S) : i # j => f[i] # f[j]}

(***************************************************************************)
(* retry.NewPolicy and the policy's decision.                              *)
(***************************************************************************)
NewPolicy(maxAttempts, statusCodes, idempotentOnly) ==
    [nil |-> FALSE,
     maxAttempts |-> IF maxAttempts <= 0 THEN DefaultMaxAttempts ELSE maxAttempts,
     statusCodes |-> statusCodes,
     idempotentOnly |-> idempotentOnly,
     baseBackoff |-> DefaultBaseBackoff,
     maxBackoff |-> DefaultMaxBackoff]

\* PolicyConfig.BaseBackoff, PolicyConfig.MaxBackoff (units of 10ms)
WithBackoff(p, base, max) ==
    [p EXCEPT !.baseBackoff = IF base <= 0 THEN DefaultBaseBackoff ELSE base,
              !.maxBackoff = IF max <= 0 THEN DefaultMaxBackoff ELSE max]

\* rand.Float64() is u / Grain for a draw u in 0..Grain-1
Grain == 10

\* a backoff without the cap
backoff_NoCap(p, att, u) ==
    LET d == p.baseBackoff * 2^(att - 1)
    IN d + (u * d * 2) \div (Grain * 10)

\* policy.backoff: base * 2^(attempt-1), capped at maxBackoff, plus a jitter
\* of rand.Float64() * delay * 0.2, truncated
backoff(p, att, u) ==
    LET factor == 2^(att - 1)
        d0 == p.baseBackoff * factor
        d == IF d0 > p.maxBackoff THEN p.maxBackoff ELSE d0
    IN d + (u * d * 2) \div (Grain * 10)

\* a switch whose default case answers true
isIdempotent_DefaultTrue(method) == TRUE

isIdempotent(method) == method \in IdempotentMethods

\* a check that forgets context.DeadlineExceeded
isContextError_CanceledOnly(e) == e = "canceled"

\* errors.Is(err, context.Canceled) || errors.Is(err, context.DeadlineExceeded)
isContextError(e) == e \in {"canceled", "deadline"}

\* a classification that asks Timeout() only
isNetErrorRetryable_TimeoutOnly(e) == e \in {"deadline", "net_timeout"}

\* a classification that takes every error for a transient one
isNetErrorRetryable_AnyError(e) == TRUE

\* errors.As(err, &netErr) && (netErr.Timeout() || netErr.Temporary());
\* context.DeadlineExceeded is itself a net.Error whose Timeout() is true.
isNetErrorRetryable(e) == e \in {"deadline", "net_timeout", "net_temporary"}

\* the decision after the budget test, shared by the variants below
RetryDecision(p, method, out, force) ==
    IF ~force /\ p.idempotentOnly /\ ~isIdempotent(method) THEN FALSE
    ELSE IF out.err # "nil" THEN
        IF isContextError(out.err) THEN FALSE
        ELSE isNetErrorRetryable(out.err)
    ELSE out.status \in p.statusCodes

\* a budget test that stops one attempt early
ShouldRetry_StopsEarly(p, method, out, att, force) ==
    IF att + 1 >= p.maxAttempts THEN FALSE ELSE RetryDecision(p, method, out, force)

\* a budget test that stops one attempt late
ShouldRetry_StopsLate(p, method, out, att, force) ==
    IF att > p.maxAttempts THEN FALSE ELSE RetryDecision(p, method, out, force)

\* a method test that does not look at the force flag
ShouldRetry_IgnoresForce(p, method, out, att, force) ==
    IF att >= p.maxAttempts THEN FALSE ELSE RetryDecision(p, method, out, FALSE)

\* The boolean of policy.ShouldRetry (the delay is positive whenever it is TRUE).
ShouldRetry(p, method, out, att, force) ==
    IF att >= p.maxAttempts THEN FALSE
    ELSE IF ~force /\ p.idempotentOnly /\ ~isIdempotent(method) THEN FALSE
    ELSE IF out.err # "nil" THEN
        IF isContextError(out.err) THEN FALSE
        ELSE isNetErrorRetryable(out.err)
    ELSE out.status \in p.statusCodes

(***************************************************************************)
(* Body options of a Request (WithRaw, WithJSON, WithForm, WithMultipart,  *)
(* withReadSeeker).  A body is [kind, data, fields]; bytes are 0 and 1,    *)
(* larger numbers are the framing the encoders add.                        *)
(***************************************************************************)
\* json.Marshal(v): the value between its delimiters
JsonMarshal(v) == <<123>> \o v \o <<125>>

\* url.Values.Encode(): the keys in sorted order
FormEncode(fields) == SortedSeq({200 + k : k \in fields})

\* multipart.Writer: each field and each file part is preceded by the
\* boundary line, and Close writes the closing boundary
MultipartEncode(bnd, ord, filedata) ==
    [i \in 1..(2 * Len(ord)) |-> IF i % 2 = 1 THEN 300 + bnd ELSE 200 + ord[i \div 2]]
    \o <<300 + bnd, 400>> \o filedata \o <<300 + bnd>>

\* WithRaw: a copy of the caller's bytes, the caller's content type
WithRaw(body, pos, bnd, ord) ==
    [content |-> body.data, ctype |-> Ctype("application/octet-stream"), pos |-> pos]

WithJSON(body, pos, bnd, ord) ==
    [content |-> JsonMarshal(body.data), ctype |-> Ctype("application/json"), pos |-> pos]

WithForm(body, pos, bnd, ord) ==
    [content |-> FormEncode(body.fields),
     ctype |-> Ctype("application/x-www-form-urlencoded"), pos |-> pos]

\* WithMultipart: a new multipart.Writer (random boundary) per invocation, the
\* fields in map-iteration order, io.Copy from the file's Reader where it stands
WithMultipart(body, pos, bnd, ord) ==
    [content |-> MultipartEncode(bnd, ord, SubSeq(body.data, pos + 1, Len(body.data))),
     ctype |-> [type |-> "multipart/form-data", boundary |-> bnd],
     pos |-> Len(body.data)]

\* a factory that reads the stream from where it stands
withReadSeeker_NoSeek(body, pos, bnd, ord) ==
    [content |-> SubSeq(body.data, pos + 1, Len(body.data)),
     ctype |-> Ctype("application/octet-stream"),
     pos |-> Len(body.data)]

\* withReadSeeker: Seek(0, io.SeekStart), then io.ReadAll
withReadSeeker(body, pos, bnd, ord) ==
    [content |-> SubSeq(body.data, 0 + 1, Len(body.data)),
     ctype |-> Ctype("application/octet-stream"),
     pos |-> Len(body.data)]

\* r.bodyFactory(): bnd and ord are the draws of the invocation (the
\* multipart boundary and the iteration order of the fields map)
bodyFactory(body, pos, bnd, ord) ==
    CASE body.kind = "raw" -> WithRaw(body, pos, bnd, ord)
      [] body.kind = "json" -> WithJSON(body, pos, bnd, ord)
      [] body.kind = "form" -> WithForm(body, pos, bnd, ord)
      [] body.kind = "multipart" -> WithMultipart(body, pos, bnd, ord)
      [] body.kind = "seeker" -> withReadSeeker(body, pos, bnd, ord)

Boundaries == 1..NumBoundaries
Orders(body) == IF body.kind = "multipart" THEN Perms(body.fields) ELSE {<<>>}
Draws(body) == IF body.kind = "multipart" THEN Boundaries ELSE {0}

(***************************************************************************)
(* httpc.New: what the client keeps of its Config.                         *)
(***************************************************************************)
\* WithRetry(enabled, maxAttempts), WithBreaker(enabled) applied to Config{}
Config(enabled, maxAttempts, breaker) ==
    [retryPolicy |-> NilPolicy,
     timeout |-> 0,
     retryEnabled |-> enabled,
     retryMaxAttempts |-> IF maxAttempts > 0 THEN maxAttempts ELSE 0,
     retryOnStatuses |-> {},
     breakerEnabled |-> breaker,
     middlewares |-> <<>>,
     defaultAuth |-> NoAuth,
     baseURL |-> <<>>,
     userAgent |-> "",
     sharedClient |-> 0]

\* WithHTTPClient: c.HTTPClient = client; the *http.Client instances a caller
\* passes are numbered from 1, 0 is nil
WithHTTPClient(cfg, instance) == [cfg EXCEPT !.sharedClient = instance]

\* WithTimeout: c.Timeout = d
WithTimeout(cfg, d) == [cfg EXCEPT !.timeout = d]

\* WithBaseURL: c.BaseURL = url
WithBaseURL(cfg, u) == [cfg EXCEPT !.baseURL = u]

\* WithUserAgent: c.UserAgent = ua
WithUserAgent(cfg, ua) == [cfg EXCEPT !.userAgent = ua]

\* New without options: cfg := Config{}
ZeroConfig == Config(FALSE, 0, FALSE)

\* WithAuth: c.DefaultAuth = p
WithAuth(cfg, p) == [cfg EXCEPT !.defaultAuth = p]

\* WithMiddleware: c.Middlewares = append(c.Middlewares, m)
WithMiddleware(cfg, m) == [cfg EXCEPT !.middlewares = Append(@, m)]

applyDefaults(cfg) ==
    [cfg EXCEPT !.timeout = IF @ = 0 THEN DefaultTimeout ELSE @,
                !.retryMaxAttempts = IF @ = 0 THEN DefaultMaxAttempts ELSE @,
                !.retryOnStatuses = IF @ = {} THEN DefaultRetryOnStatuses ELSE @]

\* wrapTransport(base, middlewares...): from the last middleware to the
\* first, each wraps what is there; a transport is written as the sequence
\* of its layers, outermost first
RECURSIVE wrapFrom(_, _, _)
wrapFrom(rt, mws, i) ==
    IF i < 1 THEN rt ELSE wrapFrom(<<mws[i]>> \o rt, mws, i - 1)

wrapTransport(base, mws) == wrapFrom(base, mws, Len(mws))

\* for _, mw := range cfg.Middlewares { transport = wrapTransport(transport, mw) }
RECURSIVE wrapEach(_, _, _)
wrapEach(transport, mws, i) ==
    IF i > Len(mws) THEN transport
    ELSE wrapEach(wrapTransport(transport, <<mws[i]>>), mws, i + 1)

\* a chain in which the breaker is installed after the retry middleware
Chain_BreakerOutside(cfg) ==
    LET t0 == wrapTransport(<<"base">>, <<"gzip">>)
        t1 == IF cfg.retryEnabled THEN wrapTransport(t0, <<"retry">>) ELSE t0
        t2 == IF cfg.breakerEnabled THEN wrapTransport(t1, <<"breaker">>) ELSE t1
    IN wrapEach(t2, cfg.middlewares, 1)

\* New: the transport chain around the base transport
Chain(cfg) ==
    LET t0 == wrapTransport(<<"base">>, <<"gzip">>)
        t1 == IF cfg.breakerEnabled THEN wrapTransport(t0, <<"breaker">>) ELSE t0
        t2 == IF cfg.retryEnabled THEN wrapTransport(t1, <<"retry">>) ELSE t1
    IN wrapEach(t2, cfg.middlewares, 1)

defaultUserAgent == "httpc/0"

New(cfg0) ==
    LET cfg == applyDefaults(cfg0)
        retryPolicy == IF cfg.retryPolicy.nil /\ cfg.retryEnabled
                       THEN NewPolicy(cfg.retryMaxAttempts, cfg.retryOnStatuses, TRUE)
                       ELSE cfg.retryPolicy
    IN [retryPolicy |-> retryPolicy,
        timeout |-> cfg.timeout,
        middlewares |-> cfg.middlewares,
        defaultAuth |-> cfg.defaultAuth,
        baseURL |-> cfg.baseURL,
        userAgent |-> IF cfg.userAgent = "" THEN defaultUserAgent ELSE cfg.userAgent,
        sharedClient |-> cfg.sharedClient,
        retryMiddleware |-> cfg.retryEnabled,
        breakerMiddleware |-> cfg.breakerEnabled,
        chain |-> Chain(cfg)]

\* what New(cfg0) does to the client a built before: with cfg.HTTPClient the
\* instance a holds, New writes Timeout and Transport of that instance, and
\* they are what a's Do sends through; a's cfg, policy and manager are its own
NewBeside(a, cfg0) ==
    LET b == New(cfg0)
    IN IF a.sharedClient # 0 /\ b.sharedClient = a.sharedClient
       THEN [a EXCEPT !.timeout = b.timeout,
                      !.retryMiddleware = b.retryMiddleware,
                      !.breakerMiddleware = b.breakerMiddleware,
                      !.chain = b.chain]
       ELSE a

(***************************************************************************)
(* The per-host circuit breaker (sony/gobreaker, as manager.get sets it    *)
(* up: MaxRequests 1, Interval 0, Timeout 30s, trip at 5 consecutive       *)
(* failures).  expiry = 0 is the zero time.                                *)
(***************************************************************************)
\* a trip test that needs one failure more
ReadyToTrip_OneMore(counts) == counts.ConsecutiveFailures > TripThreshold

\* settings.ReadyToTrip of manager.get
ReadyToTrip(counts) == counts.ConsecutiveFailures >= TripThreshold

\* a fallback that is not applied
defaultDuration_NoFallback(value, fallback) == value

\* defaultDuration(m.config.Timeout, 30*time.Second) with Config{}
defaultDuration(value, fallback) == IF value > 0 THEN value ELSE fallback

BreakerTimeout == defaultDuration(0, DefaultBreakerTimeout)

\* a manager whose settings allow two trials while half-open
get_TwoTrials(bs, host) ==
    IF bs[host].created THEN bs[host]
    ELSE [NoBreaker EXCEPT !.created = TRUE, !.maxRequests = MaxRequests + 1]

\* manager.get: the breaker of the host, created on first use with the
\* settings MaxRequests 1, Timeout 30s, trip at 5 consecutive failures
get(bs, host) ==
    IF bs[host].created THEN bs[host]
    ELSE [NoBreaker EXCEPT !.created = TRUE, !.maxRequests = MaxRequests]

\* CircuitBreaker.setState: a new generation, cleared counts, new expiry
setState(cb, state, t) ==
    IF cb.state = state THEN cb
    ELSE [cb EXCEPT !.state = state,
                    !.generation = @ + 1,
                    !.counts = ZeroCounts,
                    !.expiry = IF state = "open" THEN t + BreakerTimeout ELSE 0]

\* CircuitBreaker.currentState: open -> half-open once the expiry has passed
currentState(cb, t) ==
    IF cb.state = "open" /\ cb.expiry < t THEN setState(cb, "half-open", t) ELSE cb

\* CircuitBreaker.beforeRequest: the breaker after the call and its verdict
beforeRequest(cb0, t) ==
    LET cb == currentState(cb0, t)
    IN IF cb.state = "open" THEN [err |-> "breaker_open", cb |-> cb]
       ELSE IF cb.state = "half-open" /\ cb.counts.Requests >= cb.maxRequests
            THEN [err |-> "too_many_requests", cb |-> cb]
       ELSE [err |-> "nil", cb |-> [cb EXCEPT !.counts.Requests = @ + 1]]

onSuccess(cb, t) ==
    LET c1 == [cb EXCEPT !.counts.ConsecutiveSuccesses = @ + 1,
                         !.counts.ConsecutiveFailures = 0]
    IN IF cb.state = "half-open" /\ c1.counts.ConsecutiveSuccesses >= cb.maxRequests
       THEN setState(c1, "closed", t)
       ELSE c1

onFailure(cb, t) ==
    IF cb.state = "closed" THEN
        LET c1 == [cb EXCEPT !.counts.ConsecutiveFailures = @ + 1,
                             !.counts.ConsecutiveSuccesses = 0]
        IN IF ReadyToTrip(c1.counts) THEN setState(c1, "open", t) ELSE c1
    ELSE IF cb.state = "half-open" THEN setState(cb, "open", t)
    ELSE cb

\* CircuitBreaker.afterRequest: a result of an older generation is dropped
afterRequest(cb0, before, success, t) ==
    LET cb == currentState(cb0, t)
    IN IF cb.generation # before THEN cb
       ELSE IF success THEN onSuccess(cb, t) ELSE onFailure(cb, t)

\* a manager that does not count the errors of the caller's context
isSuccessful_NotContext(out) == out.err = "nil" \/ out.err \in {"canceled", "deadline"}

\* a result test that takes a 4xx/5xx response for a failure
isSuccessful_2xxOnly(out) == out.err = "nil" /\ out.status < 400

\* manager.Do: cb.Execute counts the call by the error fn returns, and fn
\* returns the transport's (resp, err) as they are
isSuccessful(out) == out.err = "nil"

\* breaker.Enabled(ctx, true) on a request with a host, behind the middleware
Enabled(toggle, defaultEnabled) ==
    IF toggle = "on" THEN TRUE ELSE IF toggle = "off" THEN FALSE ELSE defaultEnabled

UsesBreaker(c) ==
    client.breakerMiddleware /\ Enabled(req[c].breakerToggle, TRUE) /\ req[c].host # ""

(***************************************************************************)
(* Auth providers (package auth).  A provider is [kind, key, location,     *)
(* username, fails]; fails says that the provider's own work (signing a    *)
(* JWT, a ProviderFunc's function) returns an error.                       *)
(***************************************************************************)
\* NewAPIKey: an empty location is "header"
NewAPIKey(key, in) ==
    [kind |-> "apikey", key |-> key, location |-> IF in = "" THEN "header" ELSE in,
     username |-> "", fails |-> FALSE, name |-> "X-API-Key"]

\* APIKeyOptions.Name
WithKeyName(p, name) == [p EXCEPT !.name = IF name = "" THEN "X-API-Key" ELSE name]

NewBasic(username) ==
    [kind |-> "basic", key |-> "", location |-> "", username |-> username, fails |-> FALSE,
     name |-> ""]

\* a jwtProvider whose token.SignedString fails or not
NewJWT(signFails) ==
    [kind |-> "jwt", key |-> "", location |-> "", username |-> "", fails |-> signFails,
     name |-> ""]

ProviderFunc(fails) ==
    [kind |-> "func", key |-> "", location |-> "", username |-> "", fails |-> fails,
     name |-> ""]

\* provider.Apply(httpReq): the error, and the credential set on the request
Apply(p) ==
    CASE p.kind = "apikey" ->
            IF p.key = "" THEN [err |-> "api key is empty", credential |-> <<>>]
            ELSE IF p.location = "query"
            THEN [err |-> "nil", credential |-> <<"query", p.key>>]
            ELSE IF p.location \in {"header", ""}
            THEN [err |-> "nil", credential |-> <<"header", p.key>>]
            ELSE [err |-> "unsupported api key location", credential |-> <<>>]
      [] p.kind = "basic" ->
            IF p.username = "" THEN [err |-> "username is required", credential |-> <<>>]
            ELSE [err |-> "nil", credential |-> <<"header", "Basic", p.username>>]
      [] p.kind = "jwt" ->
            IF p.fails THEN [err |-> "sign jwt", credential |-> <<>>]
            ELSE [err |-> "nil", credential |-> <<"header", "Bearer">>]
      [] p.kind = "func" ->
            IF p.fails THEN [err |-> "provider error", credential |-> <<>>]
            ELSE [err |-> "nil", credential |-> <<"func">>]

(***************************************************************************)
(* Requests.                                                               *)
(***************************************************************************)
Request(method, host, body, force, pol, toggle) ==
    [method |-> method, host |-> host, body |-> body, forceRetry |-> force,
     retryPolicy |-> pol, breakerToggle |-> toggle,
     authProvider |-> NoAuth, malformed |-> FALSE,
     url |-> <<>>, headers |-> NoHeaders, queries |-> NoQueries,
     contentType |-> "", accept |-> "", timeout |-> 0]

\* newRequest(method, target): the target of the request
WithTarget(r, target) == [r EXCEPT !.url = target]

\* WithHeader: r.headers.Set(key, value)
WithHeader(r, key, value) == [r EXCEPT !.headers[key] = <<value>>]

\* WithQuery: r.queries.Add(key, value)
WithQuery(r, key, value) == [r EXCEPT !.queries[key] = Append(@, value)]

\* WithContentType: r.contentType = value
WithContentType(r, value) == [r EXCEPT !.contentType = value]

\* WithAccept: r.accept = value
WithAccept(r, value) == [r EXCEPT !.accept = value]

\* WithRequestTimeout: r.timeout = d
WithRequestTimeout(r, d) == [r EXCEPT !.timeout = d]

\* WithRequestAuth(provider)
WithRequestAuth(r, provider) == [r EXCEPT !.authProvider = provider]

\* a request whose target url.Parse rejects
WithMalformedTarget(r) == [r EXCEPT !.malformed = TRUE]

Bodies ==
    {NoBody}
    \cup {[kind |-> k, data |-> Payload(n), fields |-> {}] :
            k \in {"raw", "json", "seeker"}, n \in 0..MaxLen}
    \cup {[kind |-> "form", data |-> <<>>, fields |-> f] : f \in SUBSET {1, 2}}
    \cup {[kind |-> "multipart", data |-> Payload(n), fields |-> f] :
            n \in 0..MaxLen, f \in SUBSET {1, 2}}

\* the positions the caller may have left its stream at before the call
StartPositions(body) ==
    IF body.kind \in {"seeker", "multipart"} THEN 0..Len(body.data) ELSE {0}

(***************************************************************************)
(* Client.Do up to the transport chain: buildHTTPRequest invokes the body  *)
(* factory once and sets Content-Type; then the policy of the call is      *)
(* selected (per-request override, else the client's) and handed to the    *)
(* retry middleware through the context, with the force flag.              *)
(***************************************************************************)
\* Do: policy := r.retryPolicy; if policy == nil { policy = c.retryPolicy }
SelectPolicy(r) == IF r.retryPolicy.nil THEN client.retryPolicy ELSE r.retryPolicy

\* retry.NewMiddleware: PolicyFromContext, else the default policy; without
\* the middleware in the chain there is no retry loop at all
MiddlewarePolicy(r) ==
    IF ~client.retryMiddleware THEN NilPolicy
    ELSE IF SelectPolicy(r).nil THEN client.retryPolicy
    ELSE SelectPolicy(r)

\* a Do that does not hand the force flag to the retry middleware
IsForce_Dropped(r) == FALSE

\* retry.IsForce(ctx): Do sets the flag only next to a policy
IsForce(r) == r.forceRetry /\ ~SelectPolicy(r).nil

\* the layers a call enters once (down to the retry loop), and the layers
\* every attempt enters below it; without the retry middleware the one
\* attempt enters them all
RetryAt(chain) == IF \E i \in 1..Len(chain) : chain[i] = "retry"
                  THEN CHOOSE i \in 1..Len(chain) : chain[i] = "retry"
                  ELSE 0
OuterLayers(chain) == SubSeq(chain, 1, RetryAt(chain))
InnerLayers(chain) == SubSeq(chain, RetryAt(chain) + 1, Len(chain))
\* the layers entered by an attempt the breaker rejects
DownToBreaker(layers) ==
    SubSeq(layers, 1, CHOOSE i \in 1..Len(layers) : layers[i] = "breaker")

\* strings.TrimRight(s, "/"), strings.TrimLeft(s, "/"), strings.HasPrefix(s, "/")
RECURSIVE TrimRight(_, _)
TrimRight(s, ch) ==
    IF Len(s) > 0 /\ s[Len(s)] = ch THEN TrimRight(SubSeq(s, 1, Len(s) - 1), ch) ELSE s

RECURSIVE TrimLeft(_, _)
TrimLeft(s, ch) ==
    IF Len(s) > 0 /\ s[1] = ch THEN TrimLeft(Tail(s), ch) ELSE s

HasPrefix(s, ch) == Len(s) > 0 /\ s[1] = ch

\* url.Parse's getScheme: letters up to a ':' are the scheme; a ':' in front
\* is an error; any other character first means there is no scheme
RECURSIVE schemeEnd(_, _)
schemeEnd(raw, i) ==
    IF i > Len(raw) THEN 0
    ELSE IF raw[i] = ":" THEN (IF i = 1 THEN -1 ELSE i)
    ELSE IF raw[i] = "/" THEN 0
    ELSE schemeEnd(raw, i + 1)

\* isAbsoluteURL: err == nil && u.Scheme != ""
isAbsoluteURL(raw) == schemeEnd(raw, 1) > 0

\* buildHTTPRequest, the target: the request's URL, or the base URL and a
\* relative URL put together
resolveTarget(baseURL, url) ==
    IF baseURL # <<>> /\ ~isAbsoluteURL(url)
    THEN TrimRight(baseURL, "/")
         \o (IF ~HasPrefix(url, "/") THEN <<"/">> ELSE <<>>)
         \o TrimLeft(url, "/")
    ELSE url

\* a query string is the sequence of its <<key, value>> pairs.  u.Query()
\* parses it into url.Values: per key, the values in order
PairsOf(raw, k) == SelectSeq(raw, LAMBDA kv : kv[1] = k)
ParseQuery(raw) ==
    [k \in QueryNames |-> [i \in 1..Len(PairsOf(raw, k)) |-> PairsOf(raw, k)[i][2]]]

\* url.Values.Encode: sorted by key, the values of a key in their order
QueryOrder == <<"api_key", "page">>
RECURSIVE EncodeFrom(_, _)
EncodeFrom(q, i) ==
    IF i > Len(QueryOrder) THEN <<>>
    ELSE [j \in 1..Len(q[QueryOrder[i]]) |-> <<QueryOrder[i], q[QueryOrder[i]][j]>>]
         \o EncodeFrom(q, i + 1)
Encode(q) == EncodeFrom(q, 1)

\* buildHTTPRequest, the query: with request queries, the target's own query
\* (none in a target of the model) and each of them added, encoded
buildQuery(r) ==
    IF \E k \in QueryNames : r.queries[k] # <<>>
    THEN Encode([k \in QueryNames |-> ParseQuery(<<>>)[k] \o r.queries[k]])
    ELSE <<>>

\* buildHTTPRequest, the Content-Type: the factory's content type replaces
\* r.contentType, and the header is set from it unless the caller's headers
\* have one
wireContentType(r, ctype) ==
    LET rct == IF ctype.type # "" THEN ctype ELSE Ctype(r.contentType)
    IN IF r.headers["Content-Type"] # <<>> THEN Ctype(r.headers["Content-Type"][1])
       ELSE rct

\* buildHTTPRequest, the headers: the caller's, then the defaults for the
\* names the caller left out
buildHeader(cfg, r, ctype) ==
    [k \in HeaderNames |->
        IF r.headers[k] # <<>> THEN r.headers[k]
        ELSE IF k = "User-Agent" /\ cfg.userAgent # "" THEN <<cfg.userAgent>>
        ELSE IF k = "Content-Type" /\ wireContentType(r, ctype).type # ""
        THEN <<wireContentType(r, ctype).type>>
        ELSE IF k = "Accept" /\ r.accept # "" THEN <<r.accept>>
        ELSE <<>>]

\* the *http.Request buildHTTPRequest returns
buildRequest(cfg, r, ctype) ==
    [target |-> resolveTarget(cfg.baseURL, r.url),
     rawQuery |-> buildQuery(r),
     header |-> buildHeader(cfg, r, ctype)]

\* the error of r.bodyFactory(): json.Marshal rejects a value it cannot
\* encode (written as the byte 2), and the factory normalizeBody makes for an
\* io.Reader that could not be read returns the read error
factoryErr(body) ==
    IF body.kind = "json" /\ \E i \in 1..Len(body.data) : body.data[i] = 2
    THEN "json: unsupported value"
    ELSE IF body.kind = "broken_reader" THEN "read error"
    ELSE "nil"

\* a build that does not look at the target
buildHTTPRequest_NoURLCheck(r) ==
    IF r.body.kind # "none" /\ factoryErr(r.body) # "nil" THEN factoryErr(r.body) ELSE "nil"

\* the error of r.buildHTTPRequest: the body factory's, else the one of
\* http.NewRequestWithContext for a target that does not parse
buildHTTPRequest(r) ==
    IF r.body.kind # "none" /\ factoryErr(r.body) # "nil" THEN factoryErr(r.body)
    ELSE IF r.malformed THEN "parse url"
    ELSE "nil"

\* a selection in which the client's provider wins
SelectAuth_DefaultFirst(r) ==
    IF client.defaultAuth.kind # "none" THEN client.defaultAuth ELSE r.authProvider

\* Do: authProvider := r.authProvider; if nil, c.cfg.DefaultAuth
SelectAuth(r) ==
    IF r.authProvider.kind # "none" THEN r.authProvider ELSE client.defaultAuth

\* an auth step that sends the request on when Apply fails
applyAuth_SkipOnError(p) == [err |-> "nil", credential |-> <<>>]

\* Do: if authProvider != nil, Apply; its error ends the call
applyAuth(p) ==
    IF p.kind = "none" THEN [err |-> "nil", credential |-> <<>>] ELSE Apply(p)

\* a clone that hands back the caller's own Request
clone_SamePointer(r) == [value |-> r, object |-> "caller"]

\* r.clone(): a new Request with the fields of r, the headers and queries
\* copied value by value, the body factory shared
clone(r) ==
    [value |-> [method |-> r.method, host |-> r.host, body |-> r.body,
                forceRetry |-> r.forceRetry, retryPolicy |-> r.retryPolicy,
                breakerToggle |-> r.breakerToggle, authProvider |-> r.authProvider,
                malformed |-> r.malformed, url |-> r.url,
                headers |-> [k \in DOMAIN r.headers |-> r.headers[k]],
                queries |-> [k \in DOMAIN r.queries |-> r.queries[k]],
                contentType |-> r.contentType, accept |-> r.accept,
                timeout |-> r.timeout],
     object |-> "clone"]

\* buildHTTPRequest writes the factory's content type into the Request it
\* runs on: if ctype != "" { r.contentType = ctype }
afterBuild(r, invoked, ctype) ==
    IF invoked /\ ctype.type # "" THEN [r EXCEPT !.contentType = ctype.type] ELSE r

\* a Do that keeps the overrides of the request as the client's defaults
clientAfterDo_KeepsOverrides(cl, r) ==
    [cl EXCEPT !.defaultAuth = IF r.authProvider.kind # "none" THEN r.authProvider ELSE @,
               !.retryPolicy = IF ~r.retryPolicy.nil THEN r.retryPolicy ELSE @]

\* Do reads c.cfg, c.retryPolicy and c.httpClient and assigns to none of
\* them; buildHTTPRequest takes the Config by value
clientAfterDo(cl, r) == cl

\* timers in which the request's timeout replaces the client's
startTimers_RequestReplaces(cl, r) ==
    [ctx |-> IF r.timeout > 0 THEN r.timeout ELSE -1,
     httpClient |-> IF r.timeout > 0 THEN -1 ELSE cl.timeout]

\* Do: with r.timeout > 0 the context gets that timeout; the http.Client
\* New made has Timeout = cfg.Timeout for every call
startTimers(cl, r) ==
    [ctx |-> IF r.timeout > 0 THEN r.timeout ELSE -1,
     httpClient |-> cl.timeout]

\* a timer of the call has run out
Expired(c) == deadline[c].ctx = 0 \/ deadline[c].httpClient = 0

\* an API key in the query that is added to the values already there
ApplyTo_QueryAdd(p, hr) ==
    IF p.kind = "apikey" /\ p.location = "query"
    THEN [hr EXCEPT !.rawQuery =
            Encode([ParseQuery(hr.rawQuery) EXCEPT ![p.name] = Append(@, p.key)])]
    ELSE IF p.kind = "apikey" THEN [hr EXCEPT !.header[p.name] = <<p.key>>]
    ELSE hr

\* what a provider whose Apply succeeds does to the wire request: the API
\* key is Set in the query (and the query encoded again) or in the header of
\* its name; basic auth and JWT Set the Authorization header
ApplyTo(p, hr) ==
    CASE p.kind = "apikey" /\ p.location = "query" ->
            [hr EXCEPT !.rawQuery =
               Encode([ParseQuery(hr.rawQuery) EXCEPT ![p.name] = <<p.key>>])]
      [] p.kind = "apikey" /\ p.location # "query" ->
            [hr EXCEPT !.header[p.name] = <<p.key>>]
      [] p.kind = "basic" -> [hr EXCEPT !.header["Authorization"] = <<"Basic">>]
      [] p.kind = "jwt" -> [hr EXCEPT !.header["Authorization"] = <<"Bearer">>]
      [] OTHER -> hr

Do(c, r, pos, bnd, ord) ==
    /\ pc[c] = "idle"
    /\ started < MaxCalls
    /\ started' = started + 1
    /\ req' = [req EXCEPT ![c] = r]
    /\ client' = clientAfterDo(client, r)
    /\ deadline' = [deadline EXCEPT ![c] = startTimers(client, r)]
    /\ ctxErr' = [ctxErr EXCEPT ![c] = "none"]
    /\ policy' = [policy EXCEPT ![c] = MiddlewarePolicy(r)]
    /\ wire' = [wire EXCEPT ![c] = <<>>]
    /\ hist' = [hist EXCEPT ![c] = <<>>]
    /\ waited' = [waited EXCEPT ![c] = 0]
    /\ cur' = [cur EXCEPT ![c] = 1]
    /\ respBodies' = [respBodies EXCEPT ![c] = <<>>]
    /\ netBody' = [netBody EXCEPT ![c] = NoNetBody]
    /\ LET berr == buildHTTPRequest(r)
           invoked == r.body.kind # "none" /\ factoryErr(r.body) = "nil"
           b == IF invoked THEN bodyFactory(r.body, pos, bnd, ord) ELSE NoContent
           provider == SelectAuth(r)
           a == applyAuth(provider)
           cl == clone(r)
       IN /\ source' = [source EXCEPT ![c] = IF invoked THEN b.pos ELSE pos]
          /\ caller' = [caller EXCEPT ![c] =
                          IF cl.object = "caller" THEN afterBuild(cl.value, invoked, b.ctype)
                          ELSE r]
          /\ IF berr # "nil"
             THEN \* return nil, err: before auth, before the transport
                  /\ readers' = [readers EXCEPT ![c] = <<>>]
                  /\ contentType' = [contentType EXCEPT ![c] = NoCtype]
                  /\ httpReq' = [httpReq EXCEPT ![c] = NoHTTPRequest]
                  /\ authState' = [authState EXCEPT ![c] = NoAuthState]
                  /\ attempt' = [attempt EXCEPT ![c] = 0]
                  /\ trace' = [trace EXCEPT ![c] = <<>>]
                  /\ result' = [result EXCEPT ![c] = Err(berr)]
                  /\ pc' = [pc EXCEPT ![c] = "done"]
             ELSE /\ readers' = [readers EXCEPT ![c] = <<[data |-> b.content, pos |-> 0]>>]
                  /\ contentType' = [contentType EXCEPT ![c] = wireContentType(r, b.ctype)]
                  /\ httpReq' = [httpReq EXCEPT ![c] =
                                   IF a.err = "nil"
                                   THEN ApplyTo(provider, buildRequest(client, r, b.ctype))
                                   ELSE buildRequest(client, r, b.ctype)]
                  /\ authState' = [authState EXCEPT ![c] =
                                     [applied |-> IF provider.kind = "none" THEN <<>>
                                                  ELSE <<provider>>,
                                      credential |-> a.credential,
                                      mintedAt |-> IF provider.kind = "none" \/ a.err # "nil"
                                                   THEN -1 ELSE now]]
                  /\ IF a.err # "nil"
                     THEN \* return nil, fmt.Errorf("apply auth: %w", err)
                          /\ attempt' = [attempt EXCEPT ![c] = 0]
                          /\ trace' = [trace EXCEPT ![c] = <<>>]
                          /\ result' = [result EXCEPT ![c] =
                                          [Err(a.err) EXCEPT !.wrap = "apply auth"]]
                          /\ pc' = [pc EXCEPT ![c] = "done"]
                     ELSE /\ attempt' = [attempt EXCEPT ![c] = 1]
                          /\ trace' = [trace EXCEPT ![c] = OuterLayers(client.chain)]
                          /\ result' = [result EXCEPT ![c] = NoResult]
                          /\ pc' = [pc EXCEPT ![c] = "attempt"]
    /\ UNCHANGED <<jitter, manager, response, delay, breakers, now, passes>>

(***************************************************************************)
(* The retry loop.                                                         *)
(***************************************************************************)
\* prepareAttemptRequest: attempt 1 is the request as built; a later attempt
\* is a clone whose Body comes from GetBody (the body factory again), or,
\* without GetBody, the clone as it is.  The readers of the call afterwards
\* and the index of the attempt's reader.
prepareAttemptRequest(rs, body, att, fresh) ==
    IF att = 1 THEN [readers |-> rs, cur |-> 1, invoked |-> FALSE]
    ELSE IF body.kind = "none" THEN [readers |-> rs, cur |-> 1, invoked |-> FALSE]
    ELSE [readers |-> Append(rs, [data |-> fresh.content, pos |-> 0]),
          cur |-> Len(rs) + 1, invoked |-> TRUE]

\* a loop that has the provider sign again for every attempt after the first
attemptAuth_Remint(st, att, t) ==
    IF att = 1 \/ st.applied = <<>> THEN st
    ELSE [st EXCEPT !.applied = Append(@, @[1]), !.mintedAt = t]

\* the auth an attempt's request carries: attempt 1 is the request Do signed,
\* a later attempt is req.Clone of it, with its header and URL
attemptAuth(st, att, t) == st

\* what the transport reads from a body reader, and the reader afterwards
Remaining(rd) == SubSeq(rd.data, rd.pos + 1, Len(rd.data))
Consumed(rd) == [rd EXCEPT !.pos = Len(rd.data)]

\* a wrapper that turns a 4xx/5xx status into an error
newResponse_ErrorOnStatus(resp) ==
    IF resp.status >= 400 THEN Err("http status") ELSE resp

\* newResponse: &Response{raw: resp} and a nil error, whatever the status
newResponse(resp) == [status |-> resp.status, err |-> "nil", wrap |-> "", open |-> resp.open]

\* the end of Do: the transport chain's error as it is and no response, or
\* the wrapped response
DoResult(out) == IF out.err # "nil" THEN out ELSE newResponse(out)

\* a loop that closes the body of every response, the returned one too
closeRetried_ClosesAll(out, retry) ==
    IF out.err # "nil" THEN "none" ELSE "closed"

\* a loop that leaves the body of a response it retries as it is
closeRetried_Leaks(out, retry) ==
    IF out.err # "nil" THEN "none" ELSE "open"

\* the body of the answer out after the loop's decision: a response that is
\* retried has its body closed, a response that is returned is left open;
\* with an error there is no response
closeRetried(out, retry) ==
    IF out.err # "nil" THEN "none"
    ELSE IF retry THEN "closed" ELSE "open"

\* the loop after next.RoundTrip returned out: return it, or close the
\* response body, count the attempt and wait
AfterRoundTrip(c, out) ==
    IF ~policy[c].nil
       /\ ShouldRetry(policy[c], req[c].method, out, attempt[c], IsForce(req[c]))
    THEN /\ attempt' = [attempt EXCEPT ![c] = @ + 1]
         /\ pc' = [pc EXCEPT ![c] = "wait"]
         /\ result' = result
    ELSE /\ attempt' = attempt
         /\ pc' = [pc EXCEPT ![c] = "done"]
         /\ result' = [result EXCEPT ![c] = DoResult(out)]

\* One loop iteration up to the network: prepare the attempt's request, pass
\* the breaker (manager.Do: get, beforeRequest), and hand the request to the
\* base transport; a rejected attempt returns the breaker's error at once.
Attempt(c, bnd, ord) ==
    /\ pc[c] = "attempt"
    /\ LET r == req[c]
           fresh == IF r.body.kind = "none" THEN NoContent
                    ELSE bodyFactory(r.body, source[c], bnd, ord)
           prep == prepareAttemptRequest(readers[c], r.body, attempt[c], fresh)
           gate == IF UsesBreaker(c)
                   THEN beforeRequest(get(breakers, r.host), now)
                   ELSE [err |-> "nil", cb |-> NoBreaker]
       IN /\ source' = [source EXCEPT ![c] = IF prep.invoked THEN fresh.pos ELSE @]
          /\ cur' = [cur EXCEPT ![c] = prep.cur]
          /\ breakers' = IF UsesBreaker(c) THEN [breakers EXCEPT ![r.host] = gate.cb]
                         ELSE breakers
          /\ IF gate.err = "nil"
             THEN /\ readers' = [readers EXCEPT ![c] =
                                   [prep.readers EXCEPT ![prep.cur] = Consumed(@)]]
                  /\ wire' = [wire EXCEPT ![c] =
                                Append(@, [body |-> Remaining(prep.readers[prep.cur]),
                                           credential |->
                                              attemptAuth(authState[c], attempt[c], now).credential,
                                           mintedAt |->
                                              attemptAuth(authState[c], attempt[c], now).mintedAt,
                                           ctype |-> contentType[c],
                                           generation |-> IF UsesBreaker(c)
                                                          THEN gate.cb.generation ELSE -1])]
                  /\ pc' = [pc EXCEPT ![c] = "flight"]
                  /\ trace' = [trace EXCEPT ![c] = @ \o InnerLayers(client.chain)]
                  /\ UNCHANGED <<attempt, result>>
             ELSE /\ readers' = [readers EXCEPT ![c] = prep.readers]
                  /\ wire' = wire
                  /\ trace' = [trace EXCEPT ![c] =
                                 @ \o DownToBreaker(InnerLayers(client.chain))]
                  /\ AfterRoundTrip(c, Err(gate.err))
    /\ UNCHANGED <<jitter, netBody, manager, client, respBodies, deadline, delay, caller, response, httpReq, req, ctxErr, policy, contentType, hist, waited, now, started,
                   authState, passes>>

\* the answers the base transport can give to the attempt in flight
Statuses == {200, 404, 503, 504}
TransportErrors == {"net_timeout", "net_temporary", "net_other"}
Outcomes(c) ==
    {Resp(s) : s \in Statuses} \cup {Err(e) : e \in TransportErrors}
    \cup (IF ctxErr[c] = "none" THEN {} ELSE {Err(ctxErr[c])})

\* the Content-Encoding values a response can declare, and where a
\* compressed stream can be corrupt: nowhere, in its header, in its data
Encodings == {"", "gzip", "deflate", "br"}
Corruptions == {"no", "header", "data"}

\* Close of the body the caller holds: the network body itself, or the
\* multiCloser, which closes the decoder and then the original body
Close(nb) == [nb EXCEPT !.closed = TRUE, !.originalClosed = TRUE]

\* a gzip middleware that returns the error of gzip.NewReader and leaves the
\* network body open
newGzipMiddleware_LeaksOnError(res, enc, corrupt) ==
    IF res.err # "nil" THEN [body |-> NoNetBody, out |-> res]
    ELSE IF enc = "gzip" /\ corrupt = "header"
    THEN [body |-> NoNetBody, out |-> Err("gzip: invalid header")]
    ELSE IF enc \in {"gzip", "deflate"}
    THEN [body |-> [NoNetBody EXCEPT !.decoder = enc, !.corrupt = corrupt # "no"],
          out |-> res]
    ELSE [body |-> [NoNetBody EXCEPT !.encoding = enc], out |-> res]

\* newGzipMiddleware: what the layers above get for the transport's answer
\* res with Content-Encoding enc, and the response's body.  gzip.NewReader
\* reads the stream's header and fails on a corrupt one: the network body is
\* closed and the error returned; flate.NewReader cannot fail.  A decoded
\* body is the decoder wrapped with the original, and Content-Encoding is
\* deleted; corrupt data shows when the body is read.
newGzipMiddleware(res, enc, corrupt) ==
    IF res.err # "nil" THEN [body |-> NoNetBody, out |-> res]
    ELSE IF enc = "gzip" /\ corrupt = "header"
    THEN [body |-> [NoNetBody EXCEPT !.originalClosed = TRUE],
          out |-> Err("gzip: invalid header")]
    ELSE IF enc \in {"gzip", "deflate"}
    THEN [body |-> [NoNetBody EXCEPT !.decoder = enc, !.corrupt = corrupt # "no"],
          out |-> res]
    ELSE [body |-> [NoNetBody EXCEPT !.encoding = enc], out |-> res]

\* The base transport answers res, with Content-Encoding enc; the gzip
\* middleware decodes; the breaker records the result (afterRequest: an
\* error is a failure, any response a success); the retry loop decides.
RoundTripReturns(c, res, enc, corrupt) ==
  LET g == newGzipMiddleware(res, enc, corrupt)
      out == g.out
      retry == /\ ~policy[c].nil
               /\ ShouldRetry(policy[c], req[c].method, out, attempt[c], IsForce(req[c]))
  IN
    /\ pc[c] = "flight"
    /\ hist' = [hist EXCEPT ![c] = Append(@, out)]
    /\ respBodies' = [respBodies EXCEPT ![c] = Append(@, closeRetried(out, retry))]
    /\ netBody' = [netBody EXCEPT ![c] =
                      IF closeRetried(out, retry) = "closed" THEN Close(g.body) ELSE g.body]
    /\ LET gen == wire[c][Len(wire[c])].generation
           h == req[c].host
       IN /\ breakers' = IF gen = -1 THEN breakers
                         ELSE [breakers EXCEPT ![h] = afterRequest(@, gen, isSuccessful(out), now)]
          /\ passes' = IF gen = -1 THEN passes
                       ELSE IF out.err # "nil"
                       THEN [passes EXCEPT ![h] = [streak |-> @.streak + 1, failedAt |-> now,
                                                   non2xx |-> 0,
                                                   ctxStreak |-> IF isContextError(out.err)
                                                                 THEN @.ctxStreak + 1 ELSE 0]]
                       ELSE [passes EXCEPT ![h].streak = 0,
                                           ![h].ctxStreak = 0,
                                           ![h].non2xx = IF out.status >= 400 THEN @ + 1 ELSE 0]
    /\ AfterRoundTrip(c, out)
    /\ UNCHANGED <<jitter, manager, client, deadline, delay, caller, response, httpReq, authState, trace, req, ctxErr, policy, source, readers, cur, contentType, wire,
                   waited, now, started>>

\* the base transport answers with a body that is not encoded
Reply(c, out) == RoundTripReturns(c, out, "", "no")

\* a wait that sleeps the delay out whatever the context
WaitTimer_IgnoresContext(c) ==
    /\ pc[c] = "wait"
    /\ pc' = [pc EXCEPT ![c] = "attempt"]
    /\ waited' = [waited EXCEPT ![c] = @ + 1]
    /\ UNCHANGED <<jitter, netBody, manager, client, respBodies, deadline, delay, caller, response, httpReq, authState, trace, req, ctxErr, attempt, policy, source, readers, cur, contentType,
                   wire, hist, result, breakers, now, started, passes>>

\* prepareAttemptRequest's error return: on an attempt after the first,
\* req.GetBody (the body factory: Seek to the start, then ReadAll of the
\* caller's ReadSeeker) fails, and the loop returns "reset body: %w" of the
\* error without sending anything
GetBodyFails(c) ==
    /\ pc[c] = "attempt"
    /\ attempt[c] > 1
    /\ req[c].body.kind = "seeker"
    /\ pc' = [pc EXCEPT ![c] = "done"]
    /\ result' = [result EXCEPT ![c] = [Err("seek_failed") EXCEPT !.wrap = "reset body"]]
    /\ UNCHANGED <<jitter, netBody, manager, client, respBodies, deadline, delay, caller, response, httpReq, authState, trace, req, ctxErr, attempt, policy, source, readers, cur, contentType,
                   wire, hist, waited, breakers, now, started, passes>>

\* waitWithContext, the timer's case: the wait is over, the loop goes on
WaitTimer(c) ==
    /\ pc[c] = "wait"
    /\ ctxErr[c] = "none"
    /\ pc' = [pc EXCEPT ![c] = "attempt"]
    /\ waited' = [waited EXCEPT ![c] = @ + 1]
    /\ UNCHANGED <<jitter, netBody, manager, client, respBodies, deadline, delay, caller, response, httpReq, authState, trace, req, ctxErr, attempt, policy, source, readers, cur, contentType,
                   wire, hist, result, breakers, now, started, passes>>

\* waitWithContext, ctx.Done()'s case: "retry interrupted: %w" of ctx.Err()
WaitDone(c) ==
    /\ pc[c] = "wait"
    /\ ctxErr[c] # "none"
    /\ pc' = [pc EXCEPT ![c] = "done"]
    /\ result' = [result EXCEPT ![c] = [Err(ctxErr[c]) EXCEPT !.wrap = "retry interrupted"]]
    /\ UNCHANGED <<jitter, netBody, manager, client, respBodies, deadline, delay, caller, response, httpReq, authState, trace, req, ctxErr, attempt, policy, source, readers, cur, contentType,
                   wire, hist, waited, breakers, now, started, passes>>

\* the caller cancels the call's context, or its deadline passes
Cancel(c, e) ==
    /\ pc[c] \in {"attempt", "flight", "wait"}
    /\ ctxErr[c] = "none"
    /\ ctxErr' = [ctxErr EXCEPT ![c] = e]
    /\ UNCHANGED <<jitter, netBody, manager, client, respBodies, deadline, delay, caller, response, httpReq, authState, trace, pc, req, attempt, policy, source, readers, cur, contentType,
                   wire, hist, waited, result, breakers, now, started, passes>>

\* the caller is done with the result; the slot is free for the next call
Finish(c) ==
    /\ pc[c] = "done"
    /\ pc' = [pc EXCEPT ![c] = "idle"]
    /\ req' = [req EXCEPT ![c] = NoRequest]
    /\ ctxErr' = [ctxErr EXCEPT ![c] = "none"]
    /\ attempt' = [attempt EXCEPT ![c] = 0]
    /\ policy' = [policy EXCEPT ![c] = NilPolicy]
    /\ source' = [source EXCEPT ![c] = 0]
    /\ readers' = [readers EXCEPT ![c] = <<>>]
    /\ cur' = [cur EXCEPT ![c] = 0]
    /\ contentType' = [contentType EXCEPT ![c] = NoCtype]
    /\ httpReq' = [httpReq EXCEPT ![c] = NoHTTPRequest]
    /\ response' = [response EXCEPT ![c] = NoResponse]
    /\ caller' = [caller EXCEPT ![c] = NoRequest]
    /\ deadline' = [deadline EXCEPT ![c] = NoDeadline]
    /\ wire' = [wire EXCEPT ![c] = <<>>]
    /\ hist' = [hist EXCEPT ![c] = <<>>]
    /\ respBodies' = [respBodies EXCEPT ![c] = <<>>]
    /\ netBody' = [netBody EXCEPT ![c] = NoNetBody]
    /\ waited' = [waited EXCEPT ![c] = 0]
    /\ result' = [result EXCEPT ![c] = NoResult]
    /\ trace' = [trace EXCEPT ![c] = <<>>]
    /\ authState' = [authState EXCEPT ![c] = NoAuthState]
    /\ UNCHANGED <<jitter, manager, client, delay, breakers, now, started, passes>>

\* time passes
Elapse(t, d) == IF t < 0 THEN t ELSE IF t > d THEN t - d ELSE 0

Tick(d) ==
    /\ now + d <= MaxNow
    /\ now' = now + d
    /\ deadline' = [c \in Slots |->
                      IF pc[c] \in {"attempt", "flight", "wait"}
                      THEN [ctx |-> Elapse(deadline[c].ctx, d),
                            httpClient |-> Elapse(deadline[c].httpClient, d)]
                      ELSE deadline[c]]
    /\ UNCHANGED <<jitter, netBody, manager, client, respBodies, delay, caller, response, httpReq, authState, trace, pc, req, ctxErr, attempt, policy, source, readers, cur,
                   contentType, wire, hist, waited, result, breakers, started, passes>>

(***************************************************************************)
(* Specifications.                                                         *)
(***************************************************************************)
(***************************************************************************)
(* Response: the helpers read the network body through ensureBody.  The    *)
(* network body of a response is data bytes, or fails when read.           *)
(***************************************************************************)
\* an ensureBody that does not look at what it has cached
ensureBody_Reread(rs, data, fails) ==
    IF fails
    THEN [rs EXCEPT !.err = "read error", !.reads = @ + 1, !.closes = @ + 1]
    ELSE [rs EXCEPT !.loaded = TRUE, !.body = data, !.reads = @ + 1, !.closes = @ + 1]

\* ensureBody: with a cached body or a cached error nothing is done; else
\* io.ReadAll on the network body, its error or its bytes are kept, and the
\* deferred Close runs
ensureBody(rs, data, fails) ==
    IF rs.loaded \/ rs.err # "nil" THEN rs
    ELSE IF fails
    THEN [rs EXCEPT !.err = "read error", !.reads = @ + 1, !.closes = @ + 1]
    ELSE [rs EXCEPT !.loaded = TRUE, !.body = data, !.reads = @ + 1, !.closes = @ + 1]

\* json.Unmarshal of the cached bytes: a body that starts with the byte 1
\* is taken for a valid document
Unmarshal(b) == IF b[1] = 1 THEN "nil" ELSE "invalid character"

\* what a helper returns on the Response rs (after ensureBody): Bytes and
\* String a copy of the cached bytes, DecodeJSON and IntoWriter an error
Helpers == {"Bytes", "String", "DecodeJSON", "IntoWriter"}
HelperReturn(helper, rs, writeFails) ==
    IF rs.err # "nil" THEN [err |-> rs.err, data |-> <<>>, helper |-> helper]
    ELSE IF helper \in {"Bytes", "String"}
    THEN [err |-> "nil", data |-> rs.body, helper |-> helper]
    ELSE IF helper = "DecodeJSON"
    THEN [err |-> IF Len(rs.body) = 0 THEN "EOF" ELSE Unmarshal(rs.body),
          data |-> <<>>, helper |-> helper]
    ELSE [err |-> IF Len(rs.body) = 0 THEN "nil"
                  ELSE IF writeFails THEN "write error" ELSE "nil",
          data |-> <<>>, helper |-> helper]

\* the caller calls a helper on the Response that Do returned; data and
\* fails are what the network body holds, writeFails the caller's writer
Helper(c, helper, data, fails, writeFails) ==
    /\ pc[c] = "done"
    /\ result[c].err = "nil"
    /\ Len(response[c].returns) < MaxAccesses
    /\ netBody[c].corrupt => fails
    /\ LET rs == ensureBody(response[c], data, fails)
       IN /\ response' = [response EXCEPT ![c] =
                            [rs EXCEPT !.returns = Append(@, HelperReturn(helper, rs, writeFails))]]
          /\ netBody' = [netBody EXCEPT ![c] =
                            IF rs.closes > response[c].closes THEN Close(@) ELSE @]
    /\ UNCHANGED <<jitter, manager, client, respBodies, pc, req, ctxErr, attempt, policy, source, readers, cur, contentType,
                   wire, hist, waited, result, breakers, now, started, authState, trace,
                   httpReq, caller, delay, deadline, passes>>

\* a timer of the call fires: the context of the requests of the call is
\* done with DeadlineExceeded
Expire(c) ==
    /\ pc[c] \in {"attempt", "flight", "wait"}
    /\ ctxErr[c] = "none"
    /\ Expired(c)
    /\ ctxErr' = [ctxErr EXCEPT ![c] = "deadline"]
    /\ UNCHANGED <<jitter, netBody, manager, client, respBodies, pc, req, attempt, policy, source, readers, cur, contentType,
                   wire, hist, waited, result, breakers, now, started, authState, trace,
                   httpReq, response, caller, delay, deadline, passes>>

\* ShouldRetry asks the policy p for the backoff after attempt k; u is the
\* draw of the policy's random source
Backoff(p, k, u) ==
    /\ delay' = [baseBackoff |-> p.baseBackoff, maxBackoff |-> p.maxBackoff,
                 attempt |-> k, value |-> backoff(p, k, u)]
    /\ UNCHANGED <<jitter, netBody, manager, client, respBodies, pc, req, ctxErr, attempt, policy, source, readers, cur, contentType,
                   wire, hist, waited, result, breakers, now, started, authState, trace,
                   httpReq, response, caller, deadline, passes>>

\* sync.Map.Load
Load(mp, host) == [cb |-> mp[host], ok |-> mp[host] # 0]

\* a map whose store overwrites the entry of the host
LoadOrStore_Store(mp, host, cb) ==
    [breakers |-> [mp EXCEPT ![host] = cb], actual |-> cb]

\* sync.Map.LoadOrStore: the entry if there is one, else cb is stored
LoadOrStore(mp, host, cb) ==
    IF mp[host] # 0 THEN [breakers |-> mp, actual |-> mp[host]]
    ELSE [breakers |-> [mp EXCEPT ![host] = cb], actual |-> cb]

\* manager.get, its first statement: the breaker of the host is in the map
\* and get returns it, or it is not
GetLoad(c, h) ==
    /\ manager.got[c].at = "idle"
    /\ LET l == Load(manager.breakers, h)
       IN manager' = [manager EXCEPT !.got[c] =
                        IF l.ok THEN [host |-> h, at |-> "have", fresh |-> 0, cb |-> l.cb]
                        ELSE [host |-> h, at |-> "missed", fresh |-> 0, cb |-> 0]]
    /\ UNCHANGED <<jitter, callVars>>

\* manager.get after a miss: gobreaker.NewCircuitBreaker(settings)
GetNew(c) ==
    /\ manager.got[c].at = "missed"
    /\ manager' = [manager EXCEPT !.made = @ + 1,
                                  !.got[c].at = "created",
                                  !.got[c].fresh = manager.made + 1]
    /\ UNCHANGED <<jitter, callVars>>

\* manager.get, its end: LoadOrStore, and the instance it answers is returned
GetStore(c) ==
    /\ manager.got[c].at = "created"
    /\ LET r == LoadOrStore(manager.breakers, manager.got[c].host, manager.got[c].fresh)
       IN manager' = [manager EXCEPT !.breakers = r.breakers,
                                     !.got[c].at = "have",
                                     !.got[c].cb = r.actual]
    /\ UNCHANGED <<jitter, callVars>>

\* manager.Do after get: cb.Execute, which counts a failure of fn on the
\* instance get returned
Execute(c, fails) ==
    /\ manager.got[c].at = "have"
    /\ fails => manager.failures[manager.got[c].cb] < TripThreshold
    /\ manager' = [manager EXCEPT !.failures[manager.got[c].cb] = IF fails THEN @ + 1 ELSE @,
                                  !.got[c] = NoGet]
    /\ UNCHANGED <<jitter, callVars>>

\* a Lock that does not wait for the holder
Lock_NoWait(mu, c) == [mu |-> c, ok |-> TRUE]

\* sync.Mutex.Lock by caller c: it returns once the mutex is free
Lock(mu, c) == [mu |-> c, ok |-> mu = 0]

\* policy.backoff up to the lock: factor and delay are the caller's own
BackoffEnter(c, k) ==
    /\ jitter.at[c] = "out"
    /\ jitter' = [jitter EXCEPT !.at[c] = "delay", !.attempt[c] = k]
    /\ UNCHANGED <<callVars, manager>>

\* policy.backoff: p.mu.Lock()
BackoffLock(c) ==
    /\ jitter.at[c] = "delay"
    /\ Lock(jitter.mu, c).ok
    /\ jitter' = [jitter EXCEPT !.at[c] = "draw", !.mu = Lock(jitter.mu, c).mu]
    /\ UNCHANGED <<callVars, manager>>

\* policy.backoff: the draw of p.rand under the lock, the return, and the
\* deferred p.mu.Unlock()
BackoffDraw(c, p, u) ==
    /\ jitter.at[c] = "draw"
    /\ jitter' = [jitter EXCEPT !.at[c] = "out", !.attempt[c] = 0, !.mu = 0]
    /\ delay' = [baseBackoff |-> p.baseBackoff, maxBackoff |-> p.maxBackoff,
                 attempt |-> jitter.attempt[c], value |-> backoff(p, jitter.attempt[c], u)]
    /\ UNCHANGED <<client, pc, req, ctxErr, attempt, policy, source, readers, cur, contentType,
                   wire, hist, waited, result, breakers, now, started, authState, trace,
                   httpReq, response, caller, deadline, respBodies, netBody, passes, manager>>

\* the program constructs another client, between the calls of this one
NewSecond(cfg0) ==
    /\ \A c \in Slots : pc[c] = "idle"
    /\ client' = NewBeside(client, cfg0)
    /\ UNCHANGED <<pc, req, ctxErr, attempt, policy, source, readers, cur, contentType,
                   wire, hist, waited, result, breakers, now, started, authState, trace,
                   httpReq, response, caller, delay, deadline, respBodies, netBody, passes,
                   manager, jitter>>

InitCalls ==
    /\ pc = [c \in Slots |-> "idle"]
    /\ req = [c \in Slots |-> NoRequest]
    /\ ctxErr = [c \in Slots |-> "none"]
    /\ attempt = [c \in Slots |-> 0]
    /\ policy = [c \in Slots |-> NilPolicy]
    /\ source = [c \in Slots |-> 0]
    /\ readers = [c \in Slots |-> <<>>]
    /\ cur = [c \in Slots |-> 0]
    /\ contentType = [c \in Slots |-> NoCtype]
    /\ httpReq = [c \in Slots |-> NoHTTPRequest]
    /\ response = [c \in Slots |-> NoResponse]
    /\ caller = [c \in Slots |-> NoRequest]
    /\ delay = NoDelay
    /\ deadline = [c \in Slots |-> NoDeadline]
    /\ wire = [c \in Slots |-> <<>>]
    /\ hist = [c \in Slots |-> <<>>]
    /\ respBodies = [c \in Slots |-> <<>>]
    /\ waited = [c \in Slots |-> 0]
    /\ result = [c \in Slots |-> NoResult]
    /\ breakers = [h \in Hosts |-> NoBreaker]
    /\ now = 0
    /\ started = 0
    /\ trace = [c \in Slots |-> <<>>]
    /\ authState = [c \in Slots |-> NoAuthState]
    /\ manager = NoManager
    /\ netBody = [c \in Slots |-> NoNetBody]
    /\ jitter = NoJitter
    /\ passes = [h \in Hosts |-> [streak |-> 0, failedAt |-> 0, non2xx |-> 0,
                                  ctxStreak |-> 0]]

\* Spec: one call at a time through the retry loop of a client without
\* breaker, every method, with and without the force flag.
Init ==
    /\ \E en \in BOOLEAN, m \in 0..MaxAttemptsBound :
          client = New(Config(en, m, FALSE))
    /\ InitCalls

SpecBodies == {NoBody, [kind |-> "json", data |-> Payload(MaxLen), fields |-> {}]}

Next ==
    \/ \E m \in Methods, f \in BOOLEAN, b \in SpecBodies :
          Do(1, Request(m, "h1", b, f, NilPolicy, "unset"), 0, 0, <<>>)
    \/ Attempt(1, 0, <<>>)
    \/ \E out \in Outcomes(1) : Reply(1, out)
    \/ WaitTimer(1)
    \/ WaitDone(1)
    \/ \E e \in {"canceled", "deadline"} : Cancel(1, e)

Spec == Init /\ [][Next]_vars

(***************************************************************************)
(* Claims about the retry loop, checked under Spec.                        *)
(***************************************************************************)
RetryEnabled == client.retryMiddleware
Budget == client.retryPolicy.maxAttempts
RetryableStatuses == client.retryPolicy.statusCodes
Sent(c) == Len(wire[c])
NamedIdempotent(m) == m \in {"GET", "HEAD", "OPTIONS", "PUT", "DELETE"}

\* the server of C1: a retryable status on attempts 1..N-1, 200 on attempt N
AnswersThenOK(c, N) ==
    \A i \in 1..Len(hist[c]) :
        /\ i < N => hist[c][i].err = "nil" /\ hist[c][i].status \in RetryableStatuses
        /\ i = N => hist[c][i] = Resp(200)

\* C1: with retry enabled and budget N, a retry-eligible call (idempotent
\* method, or forced) whose server answers a retryable status on attempts
\* 1..N-1 and 200 on attempt N, and whose context stays live, ends with the
\* 200 response, no error, after exactly N transport attempts.
C1_RetryUntilSuccess ==
    \A c \in Slots :
        (/\ pc[c] = "done"
         /\ RetryEnabled
         /\ NamedIdempotent(req[c].method) \/ req[c].forceRetry
         /\ ctxErr[c] = "none"
         /\ AnswersThenOK(c, Budget))
        => /\ result[c] = Resp(200)
           /\ Sent(c) = Budget
           /\ Len(hist[c]) = Budget

C1_Witness ==
    /\ pc[1] = "done"
    /\ Budget = MaxAttemptsBound
    /\ req[1].method = "POST" /\ req[1].forceRetry
    /\ Len(hist[1]) = MaxAttemptsBound
    /\ \A i \in 1..(MaxAttemptsBound - 1) : hist[1][i] = Resp(503)
    /\ result[1] = Resp(200)

\* C2: with the built-in policy configured with max attempts M, no call
\* makes more than M transport attempts, whatever the transport answers.
C2_AtMostMaxAttempts ==
    \A c \in Slots :
        /\ Sent(c) <= (IF RetryEnabled THEN Budget ELSE 1)
        /\ attempt[c] <= (IF RetryEnabled THEN Budget ELSE 1)

C2_Witness ==
    /\ pc[1] = "done"
    /\ Budget = MaxAttemptsBound
    /\ Sent(1) = MaxAttemptsBound
    /\ result[1] = Err("net_timeout")

AlwaysAnswers(c, s) == \A i \in 1..Len(hist[c]) : hist[c][i] = Resp(s)

JsonPost(c) == req[c].method = "POST" /\ req[c].body.kind = "json"

\* C4 as claimed: a POST with a JSON body against a server that always
\* answers 503 makes exactly 3 attempts on a client with retries enabled and
\* max attempts 3, exactly 1 attempt with retries disabled, and returns the
\* 503 response without error.
C4_Original ==
    \A c \in Slots :
        (pc[c] = "done" /\ JsonPost(c) /\ ctxErr[c] = "none" /\ AlwaysAnswers(c, 503))
        => /\ result[c] = Resp(503)
           /\ (RetryEnabled /\ Budget = 3 => Sent(c) = 3)
           /\ (~RetryEnabled => Sent(c) = 1)

\* C4 as amended: on the client with retries enabled and max attempts 3 the
\* POST makes exactly 1 attempt unless it carries the forced-retry flag, and
\* exactly 3 attempts with the flag; with retries disabled exactly 1; the
\* 503 response is returned without error in every case.
C4_PostNeedsForce ==
    \A c \in Slots :
        (pc[c] = "done" /\ JsonPost(c) /\ ctxErr[c] = "none" /\ AlwaysAnswers(c, 503))
        => /\ result[c] = Resp(503)
           /\ (RetryEnabled /\ Budget = 3 /\ req[c].forceRetry => Sent(c) = 3)
           /\ (RetryEnabled /\ Budget = 3 /\ ~req[c].forceRetry => Sent(c) = 1)
           /\ (~RetryEnabled => Sent(c) = 1)

C4_Witness ==
    /\ pc[1] = "done" /\ JsonPost(1) /\ req[1].forceRetry
    /\ RetryEnabled /\ Budget = 3
    /\ hist[1] = <<Resp(503), Resp(503), Resp(503)>>
    /\ result[1] = Resp(503)

\* C5: when the context is done while the retry layer waits between attempt
\* k and attempt k+1, the next step of the call is its return with an error
\* wrapping the context's error, and no further attempt is made.
C5_WaitInterrupted ==
    [][\A c \in Slots :
          (pc[c] = "wait" /\ ctxErr[c] # "none" /\ pc'[c] # "wait")
          => /\ pc'[c] = "done"
             /\ result'[c].err = ctxErr[c]
             /\ result'[c].wrap = "retry interrupted"
             /\ wire'[c] = wire[c]
             /\ hist'[c] = hist[c]]_vars

C5_Witness ==
    /\ pc[1] = "done"
    /\ result[1].err = "deadline" /\ result[1].wrap = "retry interrupted"
    /\ Sent(1) = 2 /\ attempt[1] = 3

\* C6: an attempt that fails with context.Canceled or DeadlineExceeded is the
\* call's last attempt, for every method, force flag and remaining budget,
\* and its error is the call's result.
C6_ContextErrorNotRetried ==
    \A c \in Slots : \A i \in 1..Len(hist[c]) :
        hist[c][i].err \in {"canceled", "deadline"}
        => /\ i = Len(hist[c])
           /\ Sent(c) = i
           /\ pc[c] = "done"
           /\ result[c] = hist[c][i]

C6_Witness ==
    /\ pc[1] = "done"
    /\ RetryEnabled /\ Budget = MaxAttemptsBound
    /\ req[1].method = "GET"
    /\ hist[1] = <<Resp(503), Err("deadline")>>
    /\ result[1] = Err("deadline")

\* the call of slot c ended in the backoff wait, by its context
Interrupted(c) == result[c].wrap = "retry interrupted"
LastAnswer(c) == hist[c][Len(hist[c])]

\* C19: a status is never an error: a call that ends with the transport's
\* response returns that response, whatever its status, and no error; a call
\* that returns an error returns the last attempt's transport error or the
\* error of its context that ended the backoff wait.
C19_StatusIsNotError ==
    \A c \in Slots :
        (pc[c] = "done" /\ Len(hist[c]) >= 1)
        => /\ (LastAnswer(c).err = "nil" /\ ~Interrupted(c))
              => /\ result[c] = Resp(LastAnswer(c).status)
                 /\ result[c].open
           /\ result[c].err # "nil"
              => \/ LastAnswer(c).err # "nil" /\ result[c] = LastAnswer(c)
                 \/ Interrupted(c) /\ ctxErr[c] # "none" /\ result[c].err = ctxErr[c]

C19_Witness ==
    /\ pc[1] = "done"
    /\ RetryEnabled /\ req[1].method = "GET"
    /\ hist[1] = <<Resp(503), Resp(404)>>
    /\ result[1] = Resp(404)

\* C20: when every attempt of a retry-eligible call fails with a retryable
\* transport error and the context stays live, the call makes all the
\* attempts of its budget and returns the error of the last one.
C20_ExhaustedReturnsLastError ==
    \A c \in Slots :
        (/\ pc[c] = "done"
         /\ RetryEnabled
         /\ NamedIdempotent(req[c].method) \/ req[c].forceRetry
         /\ ctxErr[c] = "none"
         /\ \A i \in 1..Len(hist[c]) : hist[c][i].err \in {"net_timeout", "net_temporary"})
        => /\ Sent(c) = Budget
           /\ Len(hist[c]) = Budget
           /\ result[c] = hist[c][Budget]

C20_Witness ==
    /\ pc[1] = "done"
    /\ Budget = MaxAttemptsBound
    /\ Len(hist[1]) = MaxAttemptsBound
    /\ \A i \in 1..(MaxAttemptsBound - 1) : hist[1][i] = Err("net_timeout")
    /\ result[1] = Err("net_temporary")

\* every answer the call of slot c got is one the client's policy retries
AllRetryable(c) ==
    \A i \in 1..Len(hist[c]) :
        \/ hist[c][i].err \in {"net_timeout", "net_temporary"}
        \/ hist[c][i].err = "nil" /\ hist[c][i].status \in RetryableStatuses

\* C28: on a retry-enabled client a non-idempotent request with the
\* forced-retry flag is retried on retryable statuses and transient transport
\* errors up to the attempt budget, and the policy decides for it on every
\* answer and attempt as it decides for a GET.
C28_ForcedRetryLikeIdempotent ==
    \A c \in Slots :
        (/\ pc[c] # "idle"
         /\ RetryEnabled
         /\ req[c].forceRetry
         /\ ~NamedIdempotent(req[c].method))
        => /\ \A out \in Outcomes(c), att \in 1..MaxAttemptsBound :
                 ShouldRetry(policy[c], req[c].method, out, att, IsForce(req[c]))
                 = ShouldRetry(policy[c], "GET", out, att, FALSE)
           /\ (pc[c] = "done" /\ ctxErr[c] = "none" /\ AllRetryable(c))
              => /\ Sent(c) = Budget
                 /\ Len(hist[c]) = Budget
                 /\ result[c] = hist[c][Budget]

C28_Witness ==
    /\ pc[1] = "done" /\ req[1].method = "PATCH" /\ req[1].forceRetry
    /\ RetryEnabled /\ Budget = MaxAttemptsBound
    /\ Len(hist[1]) = MaxAttemptsBound
    /\ hist[1][1] = Err("net_temporary")
    /\ hist[1][2] = Resp(504)
    /\ result[1] = Resp(504)

\* C31: within one call the attempts are sequential (an attempt is sent only
\* when every earlier one was answered), and while an attempt is being
\* prepared, is in flight or the loop waits, the response body of every
\* earlier attempt is closed: no body of an earlier attempt is open.
C31_BodyClosedBeforeNextAttempt ==
    \A c \in Slots :
        /\ Len(respBodies[c]) = Len(hist[c])
        /\ Len(wire[c]) = Len(hist[c]) + (IF pc[c] = "flight" THEN 1 ELSE 0)
        /\ pc[c] \in {"attempt", "flight", "wait"}
           => \A i \in 1..Len(hist[c]) :
                 respBodies[c][i] = (IF hist[c][i].err = "nil" THEN "closed" ELSE "none")
        /\ \A i \in 1..(Len(hist[c]) - 1) : respBodies[c][i] # "open"

C31_Witness ==
    /\ pc[1] = "flight"
    /\ Sent(1) = 3
    /\ hist[1] = <<Resp(503), Resp(504)>>
    /\ respBodies[1] = <<"closed", "closed">>
    /\ waited[1] = 2

\* C34: a call whose last attempt used up the budget and was answered with
\* a retryable status returns that attempt's response as it is, with a nil
\* error and with the response's body open; only the bodies of the attempts
\* that were retried are closed.
C34_ExhaustedReturnsOpenResponse ==
    \A c \in Slots :
        (/\ pc[c] = "done"
         /\ RetryEnabled
         /\ Len(hist[c]) = Budget
         /\ hist[c][Budget].err = "nil"
         /\ hist[c][Budget].status \in RetryableStatuses)
        => /\ result[c] = hist[c][Budget]
           /\ result[c].err = "nil" /\ result[c].open
           /\ respBodies[c][Budget] = "open"
           /\ \A i \in 1..(Budget - 1) :
                 respBodies[c][i] = (IF hist[c][i].err = "nil" THEN "closed" ELSE "none")

C34_Witness ==
    /\ pc[1] = "done"
    /\ Budget = MaxAttemptsBound
    /\ hist[1] = [i \in 1..MaxAttemptsBound |-> Resp(503)]
    /\ result[1] = Resp(503)
    /\ respBodies[1][MaxAttemptsBound] = "open"

(***************************************************************************)
(* SpecBody: one forced-retry call at a time with every body option, on a  *)
(* client with retries enabled.                                            *)
(***************************************************************************)
InitBody ==
    /\ \E m \in 1..MaxAttemptsBound : client = New(Config(TRUE, m, FALSE))
    /\ InitCalls

NextBody ==
    \/ \E m \in {"POST", "PUT"}, b \in Bodies :
          \E pos \in StartPositions(b), bnd \in Draws(b), ord \in Orders(b) :
             Do(1, Request(m, "h1", b, TRUE, NilPolicy, "unset"), pos, bnd, ord)
    \/ \E bnd \in Draws(req[1].body), ord \in Orders(req[1].body) : Attempt(1, bnd, ord)
    \/ \E out \in {Resp(200), Resp(503), Err("net_timeout")} : Reply(1, out)
    \/ WaitTimer(1)

SpecBody == InitBody /\ [][NextBody]_vars

\* C7: a body given as a seekable stream is on the wire in full on the first
\* attempt and on every retried attempt, wherever the caller left the stream,
\* and every attempt reads a reader of its own.
C7_SeekableBodyIdentical ==
    \A c \in Slots :
        req[c].body.kind = "seeker"
        => /\ \A i \in 1..Len(wire[c]) : wire[c][i].body = req[c].body.data
           /\ (pc[c] = "flight" => cur[c] = Len(wire[c]))
           /\ Len(readers[c]) <= Len(wire[c]) + 1

C7_Witness ==
    /\ req[1].body.kind = "seeker"
    /\ Len(req[1].body.data) = MaxLen
    /\ Len(wire[1]) = MaxAttemptsBound
    /\ pc[1] = "done"

BuiltInBody(c) == req[c].body.kind \in {"raw", "json", "form", "multipart"}

\* C8 as claimed: for every built-in body option (raw, JSON, form,
\* multipart) the body and the Content-Type sent on a retried attempt are
\* those of the first attempt, and the Content-Type's boundary is the one
\* the body is framed with.
C8_Original ==
    \A c \in Slots :
        BuiltInBody(c)
        => \A i \in 1..Len(wire[c]) :
              /\ wire[c][i].body = wire[c][1].body
              /\ wire[c][i].ctype = wire[c][1].ctype

(***************************************************************************)
(* SpecBreaker: calls one after another to two hosts on a client with the  *)
(* breaker enabled and retries disabled (every call is one pass through    *)
(* its host's breaker), while time passes.                                 *)
(***************************************************************************)
InitBreaker ==
    /\ client = New(Config(FALSE, 0, TRUE))
    /\ InitCalls

\* the clock moves by the cooldown or by a second more
TickSteps == {DefaultBreakerTimeout, DefaultBreakerTimeout + 1}

NextBreaker ==
    \/ \E h \in Hosts : Do(1, Request("GET", h, NoBody, FALSE, NilPolicy, "unset"), 0, 0, <<>>)
    \/ Attempt(1, 0, <<>>)
    \/ \E out \in {Resp(200), Resp(404), Resp(503), Err("net_timeout")} : Reply(1, out)
    \/ Finish(1)
    \/ \E d \in TickSteps : Tick(d)

SpecBreaker == InitBreaker /\ [][NextBreaker]_vars

\* the call in slot c passes the breaker layer in this step
Passes(c) == pc[c] = "attempt" /\ pc'[c] # "attempt"
Rejected(c, e) ==
    /\ result'[c].err = e
    /\ pc'[c] = "done"
    /\ wire'[c] = wire[c]
    /\ hist'[c] = hist[c]
\* the time since the last failed call to h is within the cooldown
InCooldown(h) == now <= passes[h].failedAt + 30

\* C9: after 5 calls in a row through host H's breaker that each ended in a
\* transport error, the next call to H (made before the cooldown is over) is
\* rejected with the breaker-open error and nothing is sent; a call to a host
\* whose own calls did not fail is handed to the transport.
C9_OpenAfterFiveFailures ==
    [][\A c \in Slots :
          /\ (Passes(c) /\ passes[req[c].host].streak >= 5 /\ InCooldown(req[c].host))
             => Rejected(c, "breaker_open")
          /\ (Passes(c) /\ passes[req[c].host].streak = 0)
             => pc'[c] = "flight" /\ Len(wire'[c]) = Len(wire[c]) + 1]_vars

C9_Witness ==
    /\ passes["h1"].streak = 5
    /\ breakers["h2"].counts.Requests >= 1 /\ passes["h2"].streak = 0
    /\ req[1].host = "h1" /\ pc[1] = "done"
    /\ result[1] = Err("breaker_open")
    /\ wire[1] = <<>>

\* C10: once H's breaker has been open for longer than the cooldown, the
\* next call to H is sent as the trial and the breaker is half-open; a trial
\* that returns a response closes the breaker with the failure counter at
\* zero; a trial that returns an error opens it again, and calls within the
\* new cooldown are rejected.
C10_HalfOpenTrial ==
    [][\A c \in Slots : LET h == req[c].host IN
          /\ (Passes(c) /\ breakers[h].state = "open" /\ ~InCooldown(h))
             => /\ pc'[c] = "flight"
                /\ breakers'[h].state = "half-open"
          /\ (pc[c] = "flight" /\ pc'[c] # "flight" /\ breakers[h].state = "half-open")
             => IF hist'[c][Len(hist'[c])].err = "nil"
                THEN /\ breakers'[h].state = "closed"
                     /\ breakers'[h].counts.ConsecutiveFailures = 0
                ELSE /\ breakers'[h].state = "open"
                     /\ passes'[h].failedAt = now
          /\ (Passes(c) /\ breakers[h].state = "open" /\ InCooldown(h))
             => Rejected(c, "breaker_open")]_vars

C10_Witness ==
    /\ breakers["h1"].state = "closed"
    /\ breakers["h1"].generation = 5
    /\ passes["h1"].streak = 0

\* C11: a 4xx/5xx response is never a breaker failure: while the last calls
\* through H's breaker were answered 4xx/5xx, the breaker is closed with the
\* consecutive-failure counter at zero, and the counter grows only in a step
\* in which a call to H returns an error.
C11_StatusIsNotFailure ==
    /\ [](\A h \in Hosts :
            passes[h].non2xx >= 1
            => /\ breakers[h].state = "closed"
               /\ breakers[h].counts.ConsecutiveFailures = 0)
    /\ [][\A h \in Hosts :
            breakers'[h].counts.ConsecutiveFailures > breakers[h].counts.ConsecutiveFailures
            => \E c \in Slots :
                  /\ pc[c] = "flight" /\ pc'[c] # "flight" /\ req[c].host = h
                  /\ hist'[c][Len(hist'[c])].err # "nil"]_vars

C11_Witness ==
    /\ passes["h1"].non2xx = TripThreshold + 1
    /\ breakers["h1"].counts.Requests >= TripThreshold + 1
    /\ breakers["h1"].state = "closed"
    /\ result[1] = Resp(503)

(***************************************************************************)
(* SpecRetryBreaker: calls one after another to one host on a client with  *)
(* retries and the breaker enabled, while time passes.                     *)
(***************************************************************************)
InitRetryBreaker ==
    /\ \E m \in 2..MaxAttemptsBound : client = New(Config(TRUE, m, TRUE))
    /\ InitCalls

NextRetryBreaker ==
    \/ \E m \in {"GET", "POST"}, f \in BOOLEAN :
          Do(1, Request(m, "h1", NoBody, f, NilPolicy, "unset"), 0, 0, <<>>)
    \/ Attempt(1, 0, <<>>)
    \/ \E out \in {Resp(200), Resp(503), Err("net_timeout")} : Reply(1, out)
    \/ WaitTimer(1)
    \/ Finish(1)
    \/ Tick(DefaultBreakerTimeout + 1)

SpecRetryBreaker == InitRetryBreaker /\ [][NextRetryBreaker]_vars

\* C12: an attempt the breaker rejects is the call's last step: the call
\* returns the breaker-open error at once, with no wait and no further
\* attempt, whatever the method, the force flag and the budget left.
C12_BreakerOpenNotRetried ==
    [][\A c \in Slots :
          (pc[c] = "attempt" /\ pc'[c] # "attempt" /\ wire'[c] = wire[c])
          => /\ pc'[c] = "done"
             /\ result'[c] = Err("breaker_open")
             /\ attempt'[c] = attempt[c]
             /\ waited'[c] = waited[c]
             /\ hist'[c] = hist[c]]_vars

C12_Witness ==
    /\ pc[1] = "done"
    /\ req[1].method = "GET"
    /\ Budget = MaxAttemptsBound
    /\ hist[1] = <<Err("net_timeout")>>
    /\ attempt[1] = 2 /\ waited[1] = 1
    /\ result[1] = Err("breaker_open")

(***************************************************************************)
(* SpecOverride: one call with per-request overrides (retry policy,        *)
(* breaker toggle) on clients with retries and the breaker on or off.      *)
(***************************************************************************)
\* the policy of WithRequestRetry: two attempts, retry on 404, every method
RequestPolicy == NewPolicy(2, {404}, FALSE)

InitOverride ==
    /\ \E en \in BOOLEAN, br \in BOOLEAN : client = New(Config(en, MaxAttemptsBound, br))
    /\ InitCalls

NextOverride ==
    \/ \E m \in {"GET", "POST"}, pol \in {NilPolicy, RequestPolicy},
          toggle \in {"unset", "on", "off"} :
          Do(1, Request(m, "h1", NoBody, FALSE, pol, toggle), 0, 0, <<>>)
    \/ Attempt(1, 0, <<>>)
    \/ \E out \in {Resp(200), Resp(404), Resp(503), Err("net_timeout")} : Reply(1, out)
    \/ WaitTimer(1)

SpecOverride == InitOverride /\ [][NextOverride]_vars

\* the call in slot c went through its host's breaker
ThroughBreaker(c) ==
    /\ breakers[req[c].host].created
    /\ breakers[req[c].host].counts.Requests >= 1

\* C13 as claimed: once the call's first attempt is past the breaker layer,
\* with the override false it has bypassed the breaker and with the override
\* true it has gone through the host's breaker, whatever the client's default.
C13_Original ==
    \A c \in Slots :
        pc[c] \in {"flight", "done"}
        => /\ (req[c].breakerToggle = "off" => ~breakers[req[c].host].created)
           /\ (req[c].breakerToggle = "on" => ThroughBreaker(c))

\* C14 as claimed: a call answered 404 on every attempt makes the attempts of
\* the policy given with WithRequestRetry whatever the client's retry
\* setting; without a per-request policy a GET answered 503 on every attempt
\* makes the attempts of the client's policy, and a call without any policy
\* makes one attempt.
C14_Original ==
    \A c \in Slots :
        pc[c] = "done"
        => /\ (~req[c].retryPolicy.nil /\ AlwaysAnswers(c, 404))
              => Sent(c) = req[c].retryPolicy.maxAttempts
           /\ (req[c].retryPolicy.nil /\ ~client.retryPolicy.nil
                 /\ req[c].method = "GET" /\ AlwaysAnswers(c, 503))
              => Sent(c) = client.retryPolicy.maxAttempts
           /\ (req[c].retryPolicy.nil /\ client.retryPolicy.nil) => Sent(c) = 1

(***************************************************************************)
(* SpecChain: one call on clients built with and without retries, the      *)
(* breaker and caller-supplied middlewares.                                *)
(***************************************************************************)
\* the options of New: none, one or two WithMiddleware
Registrations(cfg) ==
    {cfg, WithMiddleware(cfg, "mw1"), WithMiddleware(WithMiddleware(cfg, "mw1"), "mw2")}

InitChain ==
    /\ \E en \in BOOLEAN, br \in BOOLEAN :
          \E cfg \in Registrations(Config(en, MaxAttemptsBound, br)) : client = New(cfg)
    /\ InitCalls

NextChain ==
    \/ \E m \in {"GET", "POST"} :
          Do(1, Request(m, "h1", NoBody, FALSE, NilPolicy, "unset"), 0, 0, <<>>)
    \/ Attempt(1, 0, <<>>)
    \/ \E out \in {Resp(200), Resp(503), Err("net_timeout")} : Reply(1, out)
    \/ WaitTimer(1)

SpecChain == InitChain /\ [][NextChain]_vars

Reverse(seq) == [i \in 1..Len(seq) |-> seq[Len(seq) + 1 - i]]

RECURSIVE Times(_, _)
Times(seq, n) == IF n = 0 THEN <<>> ELSE seq \o Times(seq, n - 1)

\* the layers a call enters once, and the layers each attempt enters
PerCall == Reverse(client.middlewares) \o (IF RetryEnabled THEN <<"retry">> ELSE <<>>)
PerAttempt ==
    (IF client.breakerMiddleware THEN <<"breaker">> ELSE <<>>) \o <<"gzip", "base">>

\* C15: a call enters the caller-supplied middlewares once, the later
\* registered first, then the retry layer, and every attempt (retried ones
\* too) enters the breaker, then decompression, then the base transport; the
\* host's breaker has counted every attempt.
C15_LayerOrder ==
    \A c \in Slots :
        pc[c] \in {"flight", "wait", "done"}
        => /\ trace[c] = PerCall \o Times(PerAttempt, Sent(c))
                          \o (IF result[c].err = "breaker_open" THEN <<"breaker">> ELSE <<>>)
           /\ client.breakerMiddleware
              => breakers[req[c].host].counts.Requests = Sent(c)

C15_Witness ==
    /\ client.middlewares = <<"mw1", "mw2">>
    /\ pc[1] = "done" /\ Sent(1) >= 2
    /\ Len(trace[1]) >= 9
    /\ SubSeq(trace[1], 1, 9) = <<"mw2", "mw1", "retry", "breaker", "gzip", "base",
                                   "breaker", "gzip", "base">>

(***************************************************************************)
(* SpecAuth: one call through build and auth, on clients with and without  *)
(* a default provider, with and without a per-request provider, with       *)
(* targets and bodies that build or fail to build.                         *)
(***************************************************************************)
\* providers that work and providers whose Apply fails
AuthProviders(key, user) ==
    {NewAPIKey(k, in) : k \in {"", key}, in \in {"", "query", "cookie"}}
    \cup {NewBasic(u) : u \in {"", user}}
    \cup {NewJWT(f) : f \in BOOLEAN}
    \cup {ProviderFunc(f) : f \in BOOLEAN}

AuthBodies ==
    {NoBody,
     [kind |-> "json", data |-> Payload(1), fields |-> {}],
     [kind |-> "json", data |-> <<2>>, fields |-> {}],
     [kind |-> "broken_reader", data |-> <<>>, fields |-> {}]}

AuthRequests ==
    LET plain == {Request(m, "h1", b, FALSE, NilPolicy, "unset") :
                     m \in {"GET", "POST"}, b \in AuthBodies}
        targeted == plain \cup {WithMalformedTarget(r) : r \in plain}
    IN targeted \cup {WithRequestAuth(r, p) : r \in targeted, p \in AuthProviders("rk", "ru")}

InitAuth ==
    /\ \E p \in {NoAuth} \cup AuthProviders("dk", "du") :
          client = New(WithAuth(Config(FALSE, 0, FALSE), p))
    /\ InitCalls

NextAuth ==
    \/ \E r \in AuthRequests : Do(1, r, 0, 0, <<>>)
    \/ Attempt(1, 0, <<>>)
    \/ \E out \in {Resp(200), Resp(401), Err("net_timeout")} : Reply(1, out)

SpecAuth == InitAuth /\ [][NextAuth]_vars

\* the request of slot c cannot be built
BuildFails(c) == req[c].malformed \/ factoryErr(req[c].body) # "nil"

\* the provider the claim selects for the call of slot c
Selected(c) ==
    IF req[c].authProvider # NoAuth THEN req[c].authProvider ELSE client.defaultAuth

\* C16: a call that builds applies the per-request provider if one is set,
\* else the client's default, else none: that provider and no other is
\* applied, and what reaches the wire carries its credential.
C16_AuthPrecedence ==
    \A c \in Slots :
        (pc[c] # "idle" /\ ~BuildFails(c))
        => /\ authState[c].applied = IF Selected(c) = NoAuth THEN <<>> ELSE <<Selected(c)>>
           /\ \A i \in 1..Len(wire[c]) :
                 wire[c][i].credential =
                    IF Selected(c) = NoAuth THEN <<>> ELSE Apply(Selected(c)).credential

C16_Witness ==
    /\ client.defaultAuth = NewBasic("du")
    /\ req[1].authProvider = NewAPIKey("rk", "")
    /\ pc[1] = "done" /\ result[1] = Resp(200)
    /\ authState[1].applied = <<NewAPIKey("rk", "")>>
    /\ wire[1][1].credential = <<"header", "rk">>

\* C17: when the selected provider's Apply fails, the call is over with an
\* error wrapping that failure and no response, and nothing was sent.
C17_AuthFailureAborts ==
    \A c \in Slots :
        (pc[c] # "idle" /\ ~BuildFails(c)
           /\ Selected(c) # NoAuth /\ Apply(Selected(c)).err # "nil")
        => /\ pc[c] = "done"
           /\ result[c].err = Apply(Selected(c)).err
           /\ result[c].wrap = "apply auth"
           /\ ~result[c].open
           /\ wire[c] = <<>> /\ trace[c] = <<>>

C17_Witness ==
    /\ pc[1] = "done"
    /\ client.defaultAuth = NewAPIKey("dk", "cookie")
    /\ req[1].authProvider = NoAuth
    /\ result[1].err = "unsupported api key location"
    /\ wire[1] = <<>>

\* C18: when the wire request cannot be built (a target that does not parse,
\* a body factory that fails), the call is over with an error and no
\* response, no provider was applied and nothing was sent.
C18_BuildFailureAborts ==
    \A c \in Slots :
        (pc[c] # "idle" /\ BuildFails(c))
        => /\ pc[c] = "done"
           /\ result[c].err # "nil"
           /\ ~result[c].open
           /\ authState[c] = NoAuthState
           /\ wire[c] = <<>> /\ trace[c] = <<>>

C18_Witness ==
    /\ pc[1] = "done"
    /\ req[1].malformed /\ req[1].body.kind = "none"
    /\ req[1].authProvider = NewBasic("ru")
    /\ result[1] = Err("parse url")
    /\ authState[1].applied = <<>>

(***************************************************************************)
(* SpecURL: calls on a client with a base URL; the targets are relative    *)
(* (with and without leading slashes) or carry a scheme.                   *)
(***************************************************************************)
BaseURLs == {<<"b">>, <<"b", "/">>, <<"b", "/", "/">>, <<"b", "/", "a">>}
Targets == {<<"x">>, <<"/", "x">>, <<"/", "/", "x">>, <<"x", "/", "y">>, <<"s", ":", "x">>}

InitURL ==
    /\ \E b \in BaseURLs \cup {<<>>} : client = New(WithBaseURL(Config(FALSE, 0, FALSE), b))
    /\ InitCalls

NextURL ==
    \/ \E c \in Slots, t \in Targets, meth \in {"GET", "POST"} :
          Do(c, WithTarget(Request(meth, "h1", NoBody, FALSE, NilPolicy, "unset"), t),
             0, 0, <<>>)
    \/ \E c \in Slots : Attempt(c, 0, <<>>)
    \/ \E c \in Slots, out \in {Resp(200), Resp(404)} : Reply(c, out)
    \/ \E c \in Slots : Finish(c)

SpecURL == InitURL /\ [][NextURL]_vars

\* the call of slot c has a wire request
Built(c) == pc[c] # "idle" /\ attempt[c] >= 1

\* C21: with a base URL, a relative target is resolved to the base without
\* its trailing slashes, one "/", and the target without its leading slashes;
\* a target with a scheme is used as it is.
C21_Original ==
    \A c \in Slots :
        (Built(c) /\ client.baseURL # <<>>)
        => httpReq[c].target =
              IF isAbsoluteURL(req[c].url) THEN req[c].url
              ELSE TrimRight(client.baseURL, "/") \o <<"/">> \o TrimLeft(req[c].url, "/")

(***************************************************************************)
(* SpecContent: calls with and without a body, with and without            *)
(* WithContentType and a Content-Type header of the caller.                *)
(***************************************************************************)
ContentBodies == {NoBody} \cup {[kind |-> k, data |-> Payload(1), fields |-> {}] :
                                  k \in {"raw", "json"}}

ContentRequests ==
    {WithContentType(r, ct) :
        r \in {Request("POST", "h1", b, FALSE, NilPolicy, "unset") : b \in ContentBodies}
              \cup {WithHeader(Request("POST", "h1", b, FALSE, NilPolicy, "unset"),
                               "Content-Type", "text/csv") : b \in ContentBodies},
        ct \in {"", "text/plain"}}

InitContent ==
    /\ client = New(Config(FALSE, 0, FALSE))
    /\ InitCalls

NextContent ==
    \/ \E c \in Slots, r \in ContentRequests : Do(c, r, 0, 0, <<>>)
    \/ \E c \in Slots : Attempt(c, 0, <<>>)
    \/ \E c \in Slots, out \in {Resp(200), Resp(503)} : Reply(c, out)
    \/ \E c \in Slots : Finish(c)

SpecContent == InitContent /\ [][NextContent]_vars

\* the content type the body factory of a request provides
FactoryDefault(r) ==
    IF r.body.kind = "none" THEN NoCtype ELSE bodyFactory(r.body, 0, 0, <<>>).ctype

\* C22: the Content-Type on the wire is the caller's Content-Type header,
\* else the content type set with WithContentType, else the body factory's
\* default.
C22_Original ==
    \A c \in Slots :
        Built(c)
        => contentType[c] =
              IF req[c].headers["Content-Type"] # <<>>
              THEN Ctype(req[c].headers["Content-Type"][1])
              ELSE IF req[c].contentType # "" THEN Ctype(req[c].contentType)
              ELSE FactoryDefault(req[c])

(***************************************************************************)
(* SpecResponse: calls that end with a response, and the caller's helper   *)
(* calls on it.                                                            *)
(***************************************************************************)
NetBodies == {Payload(n) : n \in 0..MaxLen}

InitResponse ==
    /\ client = New(Config(FALSE, 0, FALSE))
    /\ InitCalls

NextResponse ==
    \/ Do(1, Request("GET", "h1", NoBody, FALSE, NilPolicy, "unset"), 0, 0, <<>>)
    \/ Attempt(1, 0, <<>>)
    \/ \E out \in {Resp(200), Resp(404), Err("net_timeout")} : Reply(1, out)
    \/ \E helper \in Helpers, data \in NetBodies, fails \in BOOLEAN, writeFails \in BOOLEAN :
          Helper(1, helper, data, fails, writeFails)
    \/ Finish(1)

SpecResponse == InitResponse /\ [][NextResponse]_vars

\* C23: whatever helpers are called one after another on a Response, the
\* network body is read once and closed once, by the first call, whether
\* the read succeeds or fails; Bytes and String always return the same bytes
\* and every call after a failed read returns the same read error.
C23_ReadOnceClosedOnce ==
    \A c \in Slots :
        LET rs == response[c] IN
        Len(rs.returns) >= 1
        => /\ rs.reads = 1
           /\ rs.closes = 1
           /\ \A i \in 1..Len(rs.returns) :
                 /\ rs.returns[i].helper \in {"Bytes", "String"}
                    => /\ rs.returns[i].data = rs.body
                       /\ rs.returns[i].err = rs.err
                 /\ rs.err # "nil" => rs.returns[i].err = rs.returns[1].err
           /\ rs.loaded = (rs.err = "nil")

C23_Witness ==
    /\ Len(response[1].returns) = MaxAccesses
    /\ response[1].returns[1].helper = "DecodeJSON"
    /\ response[1].returns[2] = [err |-> "nil", data |-> Payload(MaxLen), helper |-> "Bytes"]
    /\ response[1].returns[3].helper = "String"
    /\ response[1].reads = 1 /\ response[1].closes = 1

(***************************************************************************)
(* SpecFrame: on a client with defaults for auth, retry, base URL and user *)
(* agent, slot 1 runs calls with per-request overrides (some of them fail  *)
(* in the build, in the auth or in the transport) and slot 2, after a call *)
(* of slot 1 has returned, runs calls without any override.                *)
(***************************************************************************)
FrameConfig ==
    WithUserAgent(WithBaseURL(WithAuth(Config(TRUE, 2, FALSE), NewBasic("du")), <<"b">>), "ua")

PlainRequest == WithTarget(Request("GET", "h1", NoBody, FALSE, NilPolicy, "unset"), <<"x">>)

AllOverrides ==
    WithRequestTimeout(
      WithContentType(
        WithQuery(
          WithHeader(
            WithRequestAuth(
              WithTarget(Request("POST", "h1",
                                 [kind |-> "json", data |-> Payload(1), fields |-> {}],
                                 TRUE, RequestPolicy, "off"),
                         <<"/", "y">>),
              NewAPIKey("rk", "header")),
            "Accept", "text/csv"),
          "page", "1"),
        "text/plain"),
      5)

OverrideRequests ==
    {AllOverrides,
     WithMalformedTarget(AllOverrides),
     WithRequestAuth(AllOverrides, NewAPIKey("", "header")),
     [AllOverrides EXCEPT !.body = [kind |-> "json", data |-> <<2>>, fields |-> {}]],
     [AllOverrides EXCEPT !.breakerToggle = "on", !.contentType = ""]}

InitFrame ==
    /\ client = New(FrameConfig)
    /\ InitCalls

NextFrame ==
    \/ \E r \in OverrideRequests : Do(1, r, 0, 0, <<>>)
    \/ pc[1] = "done" /\ Do(2, PlainRequest, 0, 0, <<>>)
    \/ \E c \in Slots : Attempt(c, 0, <<>>)
    \/ \E c \in Slots, out \in {Resp(200), Resp(404), Resp(503), Err("net_timeout")} :
          Reply(c, out)
    \/ \E c \in Slots : WaitTimer(c)
    \/ \E c \in Slots : Finish(c)

SpecFrame == InitFrame /\ [][NextFrame]_vars

\* C24: calls with per-request overrides leave the client as New made it,
\* and a call without overrides made after them runs on the client's
\* defaults: its retry policy, its auth provider, its base URL and user
\* agent, and no content type or header of an earlier call.
C24_ClientImmutable ==
    /\ client = New(FrameConfig)
    /\ \A c \in Slots :
          (Built(c) /\ req[c] = PlainRequest)
          => /\ policy[c] = New(FrameConfig).retryPolicy
             /\ authState[c].applied = <<NewBasic("du")>>
             /\ contentType[c] = NoCtype
             /\ httpReq[c].target = <<"b", "/", "x">>
             /\ httpReq[c].rawQuery = <<>>
             /\ httpReq[c].header["User-Agent"] = <<"ua">>
             /\ httpReq[c].header["Accept"] = <<>>
             /\ deadline[c] = [ctx |-> -1, httpClient |-> DefaultTimeout]

C24_Witness ==
    /\ req[1] = AllOverrides /\ pc[1] = "done" /\ result[1] = Resp(404)
    /\ Len(hist[1]) = 2
    /\ req[2] = PlainRequest /\ pc[2] = "done" /\ result[2] = Resp(200)
    /\ hist[2] = <<Resp(503), Resp(200)>>

\* C25: while a call runs and after Do has returned, with a response or with
\* an error of the build, of the auth or of the transport, the caller's
\* Request has in every field the value it was passed with.
C25_CallerRequestUnchanged ==
    \A c \in Slots : pc[c] # "idle" => caller[c] = req[c]

C25_Witness ==
    /\ pc[1] = "done" /\ req[1] = AllOverrides /\ result[1] = Err("net_timeout")
    /\ contentType[1] = Ctype("application/json")
    /\ caller[1].contentType = "text/plain"
    /\ caller[1].headers["Accept"] = <<"text/csv">>

(***************************************************************************)
(* SpecBackoff: the backoff of built-in policies, for bases below and      *)
(* above the cap, every attempt index up to MaxBackoffAttempt and every    *)
(* draw of the random source.                                              *)
(***************************************************************************)
BaseBackoffs == {0, 1, 5, DefaultBaseBackoff, 30}
MaxBackoffs == {0, 10, 25}

InitBackoff ==
    /\ client = New(Config(TRUE, 0, FALSE))
    /\ InitCalls

NextBackoff ==
    \E base \in BaseBackoffs, max \in MaxBackoffs, k \in 1..MaxBackoffAttempt, u \in 0..(Grain - 1) :
        Backoff(WithBackoff(NewPolicy(MaxBackoffAttempt + 1, DefaultRetryOnStatuses, TRUE),
                            base, max), k, u)

SpecBackoff == InitBackoff /\ [][NextBackoff]_vars

\* base * 2^(k-1) of the last backoff, and the same under the cap
Uncapped == delay.baseBackoff * 2^(delay.attempt - 1)
Capped == IF Uncapped > delay.maxBackoff THEN delay.maxBackoff ELSE Uncapped

InitDefault ==
    /\ \E cfg \in {ZeroConfig, WithBaseURL(ZeroConfig, <<"b">>), WithUserAgent(ZeroConfig, "ua")} :
          client = New(cfg)
    /\ InitCalls

NextDefault ==
    \/ \E c \in Slots, meth \in {"GET", "POST"} :
          Do(c, WithTarget(Request(meth, "h1", NoBody, FALSE, NilPolicy, "unset"), <<"x">>),
             0, 0, <<>>)
    \/ \E c \in Slots : Attempt(c, 0, <<>>)
    \/ \E c \in Slots, out \in {Resp(200), Resp(503), Err("net_timeout")} : Reply(c, out)
    \/ \E c \in Slots : Finish(c)

SpecDefault == InitDefault /\ [][NextDefault]_vars

\* C27: on a client made by New without retry options a GET that is
\* answered 503 is sent again (the budget is 3 attempts), and when the
\* second answer is 200 the call returns it.
C27_Original ==
    \A c \in Slots :
        (pc[c] = "done" /\ req[c].method = "GET" /\ hist[c] # <<>> /\ hist[c][1] = Resp(503))
        => /\ Len(hist[c]) >= 2
           /\ Len(hist[c]) <= DefaultMaxAttempts
           /\ hist[c][2] = Resp(200) => result[c] = Resp(200)

(***************************************************************************)
(* SpecTimeout: calls with a per-request timeout shorter and longer than   *)
(* the client's, on a server that answers or keeps the call waiting.  Time *)
(* passes in steps; a timer that has run out fires before anything else    *)
(* happens to its call.                                                    *)
(***************************************************************************)
TimeStep == DefaultTimeout \div 2
RequestTimeouts == {5, 20}
ClientTimeouts == {0, 15}

InitTimeout ==
    /\ \E t \in ClientTimeouts : client = New(WithTimeout(Config(TRUE, 2, FALSE), t))
    /\ InitCalls

Due(c) == pc[c] \in {"attempt", "flight", "wait"} /\ Expired(c)

NextTimeout ==
    \/ \E d \in RequestTimeouts :
          Do(1, WithRequestTimeout(Request("GET", "h1", NoBody, FALSE, NilPolicy, "unset"), d),
             0, 0, <<>>)
    \/ Attempt(1, 0, <<>>)
    \/ \E out \in {Resp(200), Resp(503)} : ~Due(1) /\ Reply(1, out)
    \/ ctxErr[1] # "none" /\ Reply(1, Err(ctxErr[1]))
    \/ ~Due(1) /\ WaitTimer(1)
    \/ WaitDone(1)
    \/ Expire(1)
    \/ ~Due(1) /\ Tick(TimeStep)
    \/ Finish(1)

SpecTimeout == InitTimeout /\ [][NextTimeout]_vars

\* C29: a call with WithRequestTimeout(d), d > 0, is ended by a timer only
\* once d has elapsed (the client's own timeout does not end it earlier),
\* and it does not return a response after d has elapsed.
C29_Original ==
    \A c \in Slots :
        (pc[c] # "idle" /\ req[c].timeout > 0)
        => /\ ctxErr[c] = "deadline" => deadline[c].ctx = 0
           /\ (pc[c] = "done" /\ result[c].err = "nil") => deadline[c].ctx > 0

(***************************************************************************)
(* SpecAPIKey: calls with an API-key provider for the query or for a       *)
(* header, on requests with and without query parameters (one of them of   *)
(* the provider's name), headers and a body.                               *)
(***************************************************************************)
KeyProviders ==
    {WithKeyName(NewAPIKey("sekret", "query"), "api_key"),
     NewAPIKey("sekret", "header"),
     NewAPIKey("sekret", "")}

KeyRequests ==
    LET base == {WithTarget(Request("GET", "h1", b, FALSE, NilPolicy, "unset"), <<"/", "x">>) :
                   b \in {NoBody, [kind |-> "json", data |-> Payload(1), fields |-> {}]}}
        paged == base \cup {WithQuery(r, "page", "1") : r \in base}
        keyed == paged \cup {WithQuery(r, "api_key", "old") : r \in paged}
        headed == keyed \cup {WithHeader(WithHeader(r, "Accept", "text/csv"), "X-API-Key", "old") :
                                r \in keyed}
    IN {WithRequestAuth(r, p) : r \in headed, p \in KeyProviders}

InitAPIKey ==
    /\ client = New(WithBaseURL(ZeroConfig, <<"b">>))
    /\ InitCalls

NextAPIKey ==
    \/ \E c \in Slots, r \in KeyRequests : Do(c, r, 0, 0, <<>>)
    \/ \E c \in Slots : Attempt(c, 0, <<>>)
    \/ \E c \in Slots, out \in {Resp(200), Resp(401)} : Reply(c, out)
    \/ \E c \in Slots : Finish(c)

SpecAPIKey == InitAPIKey /\ [][NextAPIKey]_vars

\* the wire request of slot c as buildHTTPRequest made it, before the auth
Unsigned(c) == buildRequest(client, req[c], FactoryDefault(req[c]))

\* C30: an API-key provider with name n and secret s for the query leaves a
\* query with exactly the one value s for n and every other parameter as it
\* was, and the headers, the target and the body untouched; for a header it
\* sets header n to s and leaves the query, the other headers, the target
\* and the body untouched.
C30_APIKeyPlacement ==
    \A c \in Slots :
        (Built(c) /\ req[c].authProvider.kind = "apikey")
        => LET p == req[c].authProvider
               q == ParseQuery(httpReq[c].rawQuery)
           IN /\ httpReq[c].target = Unsigned(c).target
              /\ readers[c][1].data =
                    (IF req[c].body.kind = "none" THEN <<>>
                     ELSE bodyFactory(req[c].body, 0, 0, <<>>).content)
              /\ IF p.location = "query"
                 THEN /\ q[p.name] = <<p.key>>
                      /\ \A k \in QueryNames \ {p.name} : q[k] = req[c].queries[k]
                      /\ Len(httpReq[c].rawQuery)
                            = 1 + Len(SelectSeq(Unsigned(c).rawQuery, LAMBDA kv : kv[1] # p.name))
                      /\ httpReq[c].header = Unsigned(c).header
                 ELSE /\ httpReq[c].header[p.name] = <<p.key>>
                      /\ \A k \in HeaderNames \ {p.name} :
                            httpReq[c].header[k] = Unsigned(c).header[k]
                      /\ httpReq[c].rawQuery = Unsigned(c).rawQuery

C30_Witness ==
    /\ pc[1] = "done" /\ result[1] = Resp(200)
    /\ req[1].authProvider = WithKeyName(NewAPIKey("sekret", "query"), "api_key")
    /\ req[1].queries["api_key"] = <<"old">>
    /\ httpReq[1].rawQuery = <<<<"api_key", "sekret">>, <<"page", "1">>>>
    /\ httpReq[1].header["X-API-Key"] = <<"old">>

(***************************************************************************)
(* SpecHalfOpen: two callers at the same time on one host, on a client     *)
(* with the breaker enabled and retries disabled, while time passes.       *)
(***************************************************************************)
InitHalfOpen ==
    /\ client = New(Config(FALSE, 0, TRUE))
    /\ InitCalls

NextHalfOpen ==
    \/ \E c \in Slots : Do(c, Request("GET", "h1", NoBody, FALSE, NilPolicy, "unset"), 0, 0, <<>>)
    \/ \E c \in Slots : Attempt(c, 0, <<>>)
    \/ \E c \in Slots, out \in {Resp(200), Err("net_timeout")} : Reply(c, out)
    \/ \E c \in Slots : Finish(c)
    \/ Tick(DefaultBreakerTimeout + 1)

SpecHalfOpen == InitHalfOpen /\ [][NextHalfOpen]_vars

\* the calls to host h in flight that h's breaker let through in its
\* current generation
Trials(h) ==
    {c \in Slots : /\ pc[c] = "flight"
                   /\ req[c].host = h
                   /\ wire[c][Len(wire[c])].generation = breakers[h].generation}

\* C32: while a host's breaker is half-open, at most one of the calls that
\* arrived in that state is in flight; a call that arrives while the trial
\* is in flight is rejected (too many requests) and nothing is sent for it.
C32_OneTrialInFlight ==
    [][\A h \in Hosts :
          /\ breakers'[h].state = "half-open" => Cardinality(Trials(h)') <= 1
          /\ \A c \in Slots :
                (/\ Passes(c)
                 /\ req[c].host = h
                 /\ breakers[h].state = "half-open"
                 /\ Trials(h) # {})
                => Rejected(c, "too_many_requests")]_vars

C32_Witness ==
    /\ breakers["h1"].state = "half-open"
    /\ Trials("h1") = {1}
    /\ pc[2] = "done"
    /\ result[2] = Err("too_many_requests")
    /\ wire[2] = <<>>

(***************************************************************************)
(* SpecManager: two callers at the same time inside manager.Do, on hosts   *)
(* the manager has and has not seen.                                       *)
(***************************************************************************)
InitManager ==
    /\ client = New(Config(FALSE, 0, TRUE))
    /\ InitCalls

NextManager ==
    \/ \E c \in Slots, h \in Hosts : GetLoad(c, h)
    \/ \E c \in Slots : GetNew(c)
    \/ \E c \in Slots : GetStore(c)
    \/ \E c \in Slots, fails \in BOOLEAN : Execute(c, fails)

SpecManager == InitManager /\ [][NextManager]_vars

\* C33: every caller that manager.get answered for a host holds the instance
\* the map has for that host, also when callers raced to create it; the
\* map's instance for a host is never replaced; a failure one caller's
\* Execute counts is counted on the instance every other caller of that
\* host holds.
C33_OneBreakerPerHost ==
    [][/\ \A h \in Hosts :
             manager.breakers[h] # 0 => manager'.breakers[h] = manager.breakers[h]
       /\ \A c \in Slots :
             manager'.got[c].at = "have"
             => manager'.got[c].cb = manager'.breakers[manager'.got[c].host]
       /\ \A c, d \in Slots :
             (/\ manager.got[c].at = "have" /\ manager'.got[c].at = "idle"
              /\ manager'.failures # manager.failures
              /\ manager.got[d].at = "have" /\ manager.got[d].host = manager.got[c].host)
             => manager'.failures[manager.got[d].cb]
                   = manager.failures[manager.got[d].cb] + 1]_vars

C33_Witness ==
    /\ manager.got[1] = [host |-> "h1", at |-> "have", fresh |-> 1, cb |-> 2]
    /\ manager.got[2] = [host |-> "h1", at |-> "have", fresh |-> 2, cb |-> 2]
    /\ manager.breakers["h1"] = 2
    /\ manager.made = 2

(***************************************************************************)
(* SpecGzip: calls on a client with retries whose responses declare no     *)
(* encoding, gzip, deflate or one the client does not decode, with sound   *)
(* and with corrupt streams, and the caller's helper calls on the result.  *)
(***************************************************************************)
InitGzip ==
    /\ client = New(Config(TRUE, 2, FALSE))
    /\ InitCalls

NextGzip ==
    \/ Do(1, Request("GET", "h1", NoBody, FALSE, NilPolicy, "unset"), 0, 0, <<>>)
    \/ Attempt(1, 0, <<>>)
    \/ \E res \in {Resp(200), Resp(503), Err("net_timeout")},
          enc \in Encodings, damage \in Corruptions : RoundTripReturns(1, res, enc, damage)
    \/ WaitTimer(1)
    \/ \E helper \in Helpers, data \in NetBodies, fails \in BOOLEAN :
          Helper(1, helper, data, fails, FALSE)
    \/ Finish(1)

SpecGzip == InitGzip /\ [][NextGzip]_vars

\* C35: a call whose response is declared gzip with a corrupt stream header
\* returns the decoder's error from Do, and the network body is closed; a
\* response whose compressed data is corrupt gives the error to the first
\* helper that reads the body, and the network body is closed with it; a
\* decoded response carries no Content-Encoding, and whenever its body is
\* closed the network body is closed.
C35_CorruptStreamIsError ==
    \A c \in Slots :
        pc[c] = "done" /\ Len(hist[c]) >= 1
        => /\ hist[c][Len(hist[c])] = Err("gzip: invalid header")
              => /\ result[c] = Err("gzip: invalid header")
                 /\ netBody[c].originalClosed
           /\ (result[c].err = "nil" /\ netBody[c].corrupt /\ Len(response[c].returns) >= 1)
              => /\ response[c].returns[1].err # "nil"
                 /\ netBody[c].originalClosed
           /\ (result[c].err = "nil" /\ netBody[c].decoder # "none")
              => /\ netBody[c].encoding = ""
                 /\ netBody[c].closed => netBody[c].originalClosed

C35_Witness ==
    /\ pc[1] = "done"
    /\ hist[1] = <<Resp(503), Resp(200)>>
    /\ netBody[1] = [closed |-> TRUE, encoding |-> "", decoder |-> "deflate", corrupt |-> TRUE,
                     originalClosed |-> TRUE]
    /\ Len(response[1].returns) = 2
    /\ response[1].returns[1].err = "read error"

(***************************************************************************)
(* SpecJitter: two callers at the same time in the backoff of the client's *)
(* policy.                                                                 *)
(***************************************************************************)
InitJitter ==
    /\ client = New(Config(TRUE, 0, FALSE))
    /\ InitCalls

NextJitter ==
    \/ \E c \in Slots, k \in 1..MaxBackoffAttempt : BackoffEnter(c, k)
    \/ \E c \in Slots : BackoffLock(c)
    \/ \E c \in Slots, u \in {0, Grain - 1} : BackoffDraw(c, client.retryPolicy, u)

SpecJitter == InitJitter /\ [][NextJitter]_vars

\* C36: at most one caller is inside the draw of the policy's random source,
\* the caller inside is the one that holds the policy's mutex, and a caller
\* that has left the backoff (or has not reached the lock) does not hold it.
C36_JitterDrawExclusive ==
    /\ Cardinality({c \in Slots : jitter.at[c] = "draw"}) <= 1
    /\ \A c \in Slots : (jitter.at[c] = "draw") <=> (jitter.mu = c)

C36_Witness ==
    /\ jitter.at[1] = "draw" /\ jitter.mu = 1
    /\ jitter.at[2] = "delay"
    /\ delay.attempt = MaxBackoffAttempt
    /\ delay.value >= DefaultMaxBackoff

(***************************************************************************)
(* SpecAuthRetry: calls with a provider of the client or of the request on *)
(* a client with retries, while time passes between the attempts.          *)
(***************************************************************************)
SigningProviders == {NewJWT(FALSE), NewAPIKey("dk", "query"), NewBasic("du")}

InitAuthRetry ==
    /\ \E p \in {NoAuth} \cup SigningProviders :
          client = New(WithAuth(Config(TRUE, MaxAttemptsBound, FALSE), p))
    /\ InitCalls

NextAuthRetry ==
    \/ \E p \in {NoAuth, NewJWT(FALSE), NewAPIKey("rk", "")} :
          Do(1, WithRequestAuth(Request("GET", "h1", NoBody, FALSE, NilPolicy, "unset"), p),
             0, 0, <<>>)
    \/ Attempt(1, 0, <<>>)
    \/ \E out \in {Resp(200), Resp(503), Err("net_timeout")} : Reply(1, out)
    \/ WaitTimer(1)
    \/ Finish(1)
    \/ Tick(DefaultTimeout)

SpecAuthRetry == InitAuthRetry /\ [][NextAuthRetry]_vars

\* C37: a call that reached the transport had its provider applied once (or
\* has none), and every attempt on the wire carries the credential of the
\* first attempt, signed when Do applied the provider.
C37_AuthAppliedOnce ==
    \A c \in Slots :
        Built(c)
        => /\ Len(authState[c].applied) = (IF SelectAuth(req[c]).kind = "none" THEN 0 ELSE 1)
           /\ \A i \in 1..Len(wire[c]) :
                 /\ wire[c][i].credential = wire[c][1].credential
                 /\ wire[c][i].credential = authState[c].credential
                 /\ wire[c][i].mintedAt = wire[c][1].mintedAt

C37_Witness ==
    /\ pc[1] = "done"
    /\ SelectAuth(req[1]) = NewJWT(FALSE)
    /\ Len(wire[1]) = MaxAttemptsBound
    /\ wire[1][MaxAttemptsBound].credential = <<"header", "Bearer">>
    /\ wire[1][MaxAttemptsBound].mintedAt < now - DefaultTimeout

(***************************************************************************)
(* SpecShared: a client built with WithHTTPClient(instance 1) and retries, *)
(* its calls, and other clients constructed meanwhile, with the same       *)
(* instance, with another one or with none.                                *)
(***************************************************************************)
SecondConfigs ==
    {WithHTTPClient(WithTimeout(Config(FALSE, 0, TRUE), DefaultTimeout + 5), 1),
     WithHTTPClient(Config(TRUE, MaxAttemptsBound, FALSE), 1),
     WithHTTPClient(Config(FALSE, 0, FALSE), 2),
     Config(FALSE, 0, TRUE)}

InitShared ==
    /\ client = New(WithHTTPClient(Config(TRUE, 2, FALSE), 1))
    /\ InitCalls

NextShared ==
    \/ Do(1, Request("GET", "h1", NoBody, FALSE, NilPolicy, "unset"), 0, 0, <<>>)
    \/ Attempt(1, 0, <<>>)
    \/ \E out \in {Resp(200), Resp(503), Err("net_timeout")} : Reply(1, out)
    \/ WaitTimer(1)
    \/ Finish(1)
    \/ \E cfg \in SecondConfigs : NewSecond(cfg)

SpecShared == InitShared /\ [][NextShared]_vars

\* C38 as claimed: no step, the construction of another client with the same
\* http.Client instance included, changes the transport chain or the timeout
\* this client sends its calls with.
C38_Original ==
    [][/\ client'.chain = client.chain
       /\ client'.timeout = client.timeout]_vars

(***************************************************************************)
(* SpecCancel: calls of two callers, one after another, to one host on a   *)
(* client with the breaker enabled and retries disabled; the callers       *)
(* cancel their calls or their deadlines pass; time passes.                *)
(***************************************************************************)
InitCancel ==
    /\ client = New(Config(FALSE, 0, TRUE))
    /\ InitCalls

NextCancel ==
    \/ \E c \in Slots :
          /\ \A d \in Slots \ {c} : pc[d] \in {"idle", "done"}
          /\ Do(c, Request("GET", "h1", NoBody, FALSE, NilPolicy, "unset"), 0, 0, <<>>)
    \/ \E c \in Slots : Attempt(c, 0, <<>>)
    \/ \E c \in Slots, e \in {"canceled", "deadline"} : Cancel(c, e)
    \/ \E c \in Slots :
          \E out \in {Resp(200), Err("net_timeout")}
                     \cup (IF ctxErr[c] = "none" THEN {} ELSE {Err(ctxErr[c])}) : Reply(c, out)
    \/ \E c \in Slots : Finish(c)
    \/ Tick(DefaultBreakerTimeout + 1)

SpecCancel == InitCancel /\ [][NextCancel]_vars

\* C39: after 5 calls in a row through host H's breaker that each ended
\* with the error of the caller's own context (cancelled or deadline), the
\* next call to H, of whichever caller, made before the cooldown is over is
\* rejected with the breaker-open error and nothing is sent.
C39_ContextErrorsTrip ==
    [][\A c \in Slots :
          (Passes(c) /\ passes[req[c].host].ctxStreak >= 5 /\ InCooldown(req[c].host))
          => Rejected(c, "breaker_open")]_vars

C39_Witness ==
    /\ passes["h1"].ctxStreak = 5
    /\ passes["h1"].streak = 5
    /\ breakers["h1"].state = "open"
    /\ req[2].host = "h1" /\ pc[2] = "done"
    /\ result[2] = Err("breaker_open")
    /\ wire[2] = <<>>

(***************************************************************************)
(* SpecTermination: as many calls as there are callers, with and without a *)
(* body, on a client with the built-in retry policy and no breaker; the    *)
(* transport answers every                                                 *)
(* attempt, callers cancel, and regenerating a body can fail.  The loop's  *)
(* goroutine is scheduled, the transport returns, the retry timer fires    *)
(* and a done context is seen: weak fairness of those steps.  Nothing      *)
(* obliges a caller to start, cancel or collect a call.                    *)
(***************************************************************************)
TerminationRequests ==
    {Request("GET", "h1", NoBody, FALSE, NilPolicy, "unset"),
     Request("PUT", "h1", [kind |-> "seeker", data |-> <<1>>], FALSE, NilPolicy, "unset")}

TerminationOutcomes(c) ==
    {Resp(200), Resp(503)}
    \cup (IF ctxErr[c] = "none" THEN {} ELSE {Err(ctxErr[c])})

InitTermination ==
    /\ client \in {New(Config(TRUE, n, FALSE)) : n \in 1..MaxAttemptsBound}
    /\ InitCalls

NextTermination ==
    \/ \E c \in Slots, r \in TerminationRequests :
          /\ started < Cardinality(Slots)
          /\ Do(c, r, 0, 0, <<>>)
    \/ \E c \in Slots : Attempt(c, 0, <<>>)
    \/ \E c \in Slots : GetBodyFails(c)
    \/ \E c \in Slots : \E out \in TerminationOutcomes(c) : Reply(c, out)
    \/ \E c \in Slots : WaitTimer(c)
    \/ \E c \in Slots : WaitDone(c)
    \/ \E c \in Slots, e \in {"canceled", "deadline"} : Cancel(c, e)
    \/ \E c \in Slots : Finish(c)

SpecTermination ==
    /\ InitTermination
    /\ [][NextTermination]_vars
    /\ \A c \in Slots :
          /\ WF_vars(Attempt(c, 0, <<>>))
          /\ WF_vars(\E out \in TerminationOutcomes(c) : Reply(c, out))
          /\ WF_vars(WaitTimer(c))
          /\ WF_vars(WaitDone(c))

InLoop(c) == pc[c] \in {"attempt", "flight", "wait"}

\* C40: with the built-in retry policy, the attempt counter of a call starts
\* at 1, goes up by exactly 1 with every retry and by nothing else, never
\* passes the policy's max attempts, and, the transport answering every
\* attempt, every call in the loop eventually returns a response or an error.
C40_EveryCallReturns ==
    /\ [][\A c \in Slots :
             /\ (~InLoop(c) /\ InLoop(c)') => (attempt'[c] = 1 /\ pc'[c] = "attempt")
             /\ (InLoop(c) /\ pc'[c] = "wait" /\ pc[c] # "wait")
                   => attempt'[c] = attempt[c] + 1
             /\ (InLoop(c) /\ ~(pc'[c] = "wait" /\ pc[c] # "wait") /\ pc'[c] # "idle")
                   => attempt'[c] = attempt[c]
             /\ InLoop(c)' => attempt'[c] <= Budget']_vars
    /\ \A c \in Slots : InLoop(c) ~> (pc[c] = "done")

\* one call ended because its body could not be regenerated for attempt 2,
\* the other went through all its attempts and returned the last answer
C40_Witness ==
    /\ pc[1] = "done" /\ pc[2] = "done"
    /\ result[1].wrap = "reset body" /\ attempt[1] = 2 /\ Sent(1) = 1
    /\ attempt[2] = Budget /\ Budget = MaxAttemptsBound
    /\ Sent(2) = MaxAttemptsBound /\ waited[2] = MaxAttemptsBound - 1
    /\ result[2] = DoResult(Resp(503))

====
